---- MODULE Spec2Model ----
(***************************************************************************)
(* A model of the anomaly-detection service: the options registry          *)
(* (utils/config.py, ConfigOpts) and the training orchestration            *)
(* (ml/manager.py, MLManager) over the storage layer (db/sqlalchemy/api.py)*)
(*                                                                         *)
(* Python strings are sequences of one-character strings, so that lower(), *)
(* strip(), int() and the quote stripping of String are computed and not   *)
(* assumed.  Python values are records tagged by k: None, str, int, bool,  *)
(* and GroupAttr (the view of a group returned by an attribute lookup).    *)
(* The outcome of a call is a record: [kind |-> "ok", val |-> v] when it   *)
(* returns v, [kind |-> "raise", exc |-> E] when it raises E.              *)
(***************************************************************************)
EXTENDS Integers, Sequences, FiniteSets, TLC

(***************************************************************************)
(* Python values and call outcomes                                         *)
(***************************************************************************)
None == [k |-> "None"]

PyStr(s) == [k |-> "str", v |-> s]

PyInt(n) == [k |-> "int", v |-> n]

PyBool(b) == [k |-> "bool", v |-> b]

GroupAttr(g) == [k |-> "GroupAttr", v |-> g]

Ok(v) == [kind |-> "ok", val |-> v]

Raise(e) == [kind |-> "raise", exc |-> e]

IsOk(r) == r.kind = "ok"

Raises(r, e) == r.kind = "raise" /\ r.exc = e

(***************************************************************************)
(* str methods                                                             *)
(***************************************************************************)
\* The lower-case letter of every upper-case letter.
LowerOf ==
    "A" :> "a" @@ "B" :> "b" @@ "C" :> "c" @@ "D" :> "d" @@ "E" :> "e"
      @@ "F" :> "f" @@ "G" :> "g" @@ "H" :> "h" @@ "I" :> "i" @@ "J" :> "j"
      @@ "K" :> "k" @@ "L" :> "l" @@ "M" :> "m" @@ "N" :> "n" @@ "O" :> "o"
      @@ "P" :> "p" @@ "Q" :> "q" @@ "R" :> "r" @@ "S" :> "s" @@ "T" :> "t"
      @@ "U" :> "u" @@ "V" :> "v" @@ "W" :> "w" @@ "X" :> "x" @@ "Y" :> "y"
      @@ "Z" :> "z"

LowerChar(c) == IF c \in DOMAIN LowerOf THEN LowerOf[c] ELSE c

Lower(s) == [i \in 1..Len(s) |-> LowerChar(s[i])]

IsSpace(c) == c \in {" ", "\t", "\n", "\r"}

RECURSIVE LStrip(_)
LStrip(s) == IF s # <<>> /\ IsSpace(s[1]) THEN LStrip(Tail(s)) ELSE s

RECURSIVE RStrip(_)
RStrip(s) ==
    IF s # <<>> /\ IsSpace(s[Len(s)]) THEN RStrip(SubSeq(s, 1, Len(s) - 1)) ELSE s

Strip(s) == RStrip(LStrip(s))

Digits == {"0", "1", "2", "3", "4", "5", "6", "7", "8", "9"}

DigitVal(c) ==
    CASE c = "0" -> 0 [] c = "1" -> 1 [] c = "2" -> 2 [] c = "3" -> 3
      [] c = "4" -> 4 [] c = "5" -> 5 [] c = "6" -> 6 [] c = "7" -> 7
      [] c = "8" -> 8 [] c = "9" -> 9

DigitChar(n) ==
    CASE n = 0 -> "0" [] n = 1 -> "1" [] n = 2 -> "2" [] n = 3 -> "3"
      [] n = 4 -> "4" [] n = 5 -> "5" [] n = 6 -> "6" [] n = 7 -> "7"
      [] n = 8 -> "8" [] n = 9 -> "9"

RECURSIVE DecVal(_)
DecVal(s) ==
    IF s = <<>> THEN 0 ELSE 10 * DecVal(SubSeq(s, 1, Len(s) - 1)) + DigitVal(s[Len(s)])

RECURSIVE DecStr(_)
DecStr(n) == IF n < 10 THEN <<DigitChar(n)>> ELSE DecStr(n \div 10) \o <<DigitChar(n % 10)>>

\* int(s) for a str s: surrounding whitespace, an optional sign, decimal digits.
IntOfStr(s) ==
    LET t == Strip(s)
        signed == t # <<>> /\ t[1] \in {"+", "-"}
        d == IF signed THEN Tail(t) ELSE t
    IN  IF d # <<>> /\ \A i \in 1..Len(d) : d[i] \in Digits
        THEN Ok(PyInt(IF signed /\ t[1] = "-" THEN 0 - DecVal(d) ELSE DecVal(d)))
        ELSE Raise("ValueError")

\* str(value)
StrOf(value) ==
    CASE value.k = "str" -> value.v
      [] value.k = "int" ->
            IF value.v < 0 THEN <<"-">> \o DecStr(0 - value.v) ELSE DecStr(value.v)
      [] value.k = "bool" ->
            IF value.v THEN <<"T", "r", "u", "e">> ELSE <<"F", "a", "l", "s", "e">>
      [] value.k = "None" -> <<"N", "o", "n", "e">>

(***************************************************************************)
(* Option types (ConfigType subclasses): calling a type coerces a value.   *)
(***************************************************************************)
TRUE_VALUES == {<<"t", "r", "u", "e">>, <<"1">>, <<"o", "n">>, <<"y", "e", "s">>}

FALSE_VALUES == {<<"f", "a", "l", "s", "e">>, <<"0">>, <<"o", "f", "f">>, <<"n", "o">>}

BooleanType == [t |-> "Boolean"]

IntegerType(min, max) == [t |-> "Integer", min |-> min, max |-> max]

StringType(quotes, choices) ==
    [t |-> "String", quotes |-> quotes, choices |-> choices,
     ignore_case |-> FALSE, max_length |-> 0]

\* Boolean.__call__: a bool is returned as it is; anything else must have
\* lower(), which only a str has.
BooleanCall(value) ==
    IF value.k = "bool" THEN Ok(value)
    ELSE IF value.k # "str" THEN Raise("builtins.AttributeError")
    ELSE LET s == Lower(value.v)
         IN  IF s \in TRUE_VALUES THEN Ok(PyBool(TRUE))
             ELSE IF s \in FALSE_VALUES THEN Ok(PyBool(FALSE))
             ELSE Raise("ValueError")

\* The value of an int or a bool in a comparison (bool is a subclass of int).
NumVal(value) == IF value.k = "bool" THEN (IF value.v THEN 1 ELSE 0) ELSE value.v

\* Number.__call__ with num_type int and no choices (IntOpt passes none).
NumberCall(typ, value) ==
    LET isnum == value.k \in {"int", "bool"}
        blank == ~isnum /\ Strip(StrOf(value)) = <<>>
        conv  == IF isnum THEN Ok(value)
                 ELSE IF value.k = "str" THEN IntOfStr(value.v)
                 ELSE Raise("TypeError")
    IN  IF blank THEN Ok(None)
        ELSE IF ~IsOk(conv) THEN conv
        ELSE IF typ.min.k # "None" /\ NumVal(conv.val) < typ.min.v THEN Raise("ValueError")
        ELSE IF typ.max.k # "None" /\ NumVal(conv.val) > typ.max.v THEN Raise("ValueError")
        ELSE conv

\* String.__call__ (no option of the program sets regex).
StringCall(typ, value) ==
    LET s0 == StrOf(value)
        quoted == typ.quotes /\ s0 # <<>> /\ s0[1] \in {"\"", "'"}
        s == IF quoted THEN SubSeq(s0, 2, Len(s0) - 1) ELSE s0
        seen == IF typ.ignore_case THEN Lower(s) ELSE s
        valid == IF typ.ignore_case THEN {Lower(c) : c \in typ.choices.v}
                 ELSE typ.choices.v
    IN  IF quoted /\ s0[Len(s0)] # s0[1] THEN Raise("ValueError")
        ELSE IF 0 < typ.max_length /\ typ.max_length < Len(s) THEN Raise("ValueError")
        ELSE IF typ.choices.k = "None" THEN Ok(PyStr(s))
        ELSE IF seen \in valid THEN Ok(PyStr(s))
        ELSE Raise("ValueError")

\* opt.type(value)
TypeCall(typ, value) ==
    CASE typ.t = "Boolean" -> BooleanCall(value)
      [] typ.t = "Integer" -> NumberCall(typ, value)
      [] typ.t = "String"  -> StringCall(typ, value)

(***************************************************************************)
(* Opt objects.  An Opt is an object: the registry holds references, and   *)
(* set_default assigns to the default of the object it finds.  The model   *)
(* has a fixed pool of constructed Opt objects; opt_default is the current *)
(* default of each.                                                        *)
(***************************************************************************)
NoChoices == None

OptPool ==
    << \* IntOpt('a', required=True)
       [name |-> <<"a">>, type |-> IntegerType(None, None),
        default |-> None, required |-> TRUE],
       \* StrOpt('g', quotes=True, default="'x'")
       [name |-> <<"g">>, type |-> StringType(TRUE, NoChoices),
        default |-> PyStr(<<"'", "x", "'">>), required |-> FALSE] >>

OptIds == 1..Len(OptPool)

OptNames == {OptPool[o].name : o \in OptIds}

\* Opt._default_is_ref: a '$' is left once the pairs '\$' and '$$' are removed.
RECURSIVE HasRef(_)
HasRef(s) ==
    IF s = <<>> THEN FALSE
    ELSE IF Len(s) >= 2 /\ s[1] \in {"\\", "$"} /\ s[2] = "$" THEN HasRef(SubSeq(s, 3, Len(s)))
    ELSE s[1] = "$" \/ HasRef(Tail(s))

\* Opt.__init__ with Opt._check_default: whether the constructor returns.
OptInit(o) ==
    /\ o.name = <<>> \/ o.name[1] # "_"
    /\ \/ o.default = None
       \/ o.default.k = "str" /\ HasRef(o.default.v)
       \/ IsOk(TypeCall(o.type, o.default))

(***************************************************************************)
(* The state of ConfigOpts (the process-wide CONF)                         *)
(***************************************************************************)
VARIABLES
    opt_default,  \* Opt.default of every Opt object of the pool
    opts,         \* ConfigOpts._opts: name -> Opt
    groups,       \* ConfigOpts._groups: group name -> OptGroup._opts
    namespace,    \* ConfigOpts._namespace: None, or the parser's view of a file
    cache,        \* ConfigOpts.__cache: (group name or None, name) -> value
    last          \* the last call made on CONF and its outcome

cfgvars == <<opt_default, opts, groups, namespace, cache, last>>

(***************************************************************************)
(* The state of the storage and of the manager                             *)
(***************************************************************************)
VARIABLES
    rows,      \* the training table: id -> the columns of the row
    produced,  \* history: id -> the model data the driver produced at creation
    ml_last    \* the last call made on MLManager or the storage, and its outcome

mlvars == <<rows, produced, ml_last>>

(***************************************************************************)
(* A call of a function of the program that keeps no state: its argument   *)
(* and what it returned or raised.                                         *)
(***************************************************************************)
VARIABLES
    fn_in,   \* the argument of the call
    fn_out   \* NotCalled, or the outcome of the call

fnvars == <<fn_in, fn_out>>

vars == <<opt_default, opts, groups, namespace, cache, last, rows, produced, ml_last,
          fn_in, fn_out>>

\* What the calls on CONF, and the calls on the manager, leave alone.
noncfg == <<mlvars, fnvars>>

nonml == <<cfgvars, fnvars>>

nonfn == <<cfgvars, mlvars>>

NotCalled == [kind |-> "not called"]

\* No function call is under way.
FnIdle == fn_in = [k |-> "None"] /\ fn_out = NotCalled

EmptyDict == <<>>

\* d[key] = value on a dict d
DictSet(d, key, value) ==
    [x \in DOMAIN d \cup {key} |-> IF x = key THEN value ELSE d[x]]

GroupNames == {<<"g">>}

\* The group argument of a call: None or a group name.
GroupArgs == {None} \cup {PyStr(g) : g \in GroupNames}

\* The config files of the file system: what ConfigParser.get(section, option)
\* returns for each (section, option) the file gives a value to.  A path that
\* is not here cannot be read.
\*   f1:  [DEFAULT] a = 7      [g] a = 'q'   g = 'q'
ConfigFiles ==
    [x \in {<<"f1">>} |->
        [y \in {<< <<"D", "E", "F", "A", "U", "L", "T">>, <<"a">> >>,
                << <<"g">>, <<"a">> >>, << <<"g">>, <<"g">> >>} |->
            IF y[1] = <<"g">> THEN <<"'", "q", "'">> ELSE <<"7">>]]

Parser(view) == [k |-> "parser", view |-> view]

(***************************************************************************)
(* ConfigOpts: lookups                                                     *)
(***************************************************************************)
\* ConfigOpts._get_group without autocreate: the group's dict of options.
GetGroup(group_name) ==
    IF group_name \notin DOMAIN groups THEN Raise("NoSuchGroupError")
    ELSE Ok(groups[group_name])

\* ConfigOpts._get_opt_info: opts[opt_name] of the top level or of the group.
GetOptInfo(opt_name, group) ==
    IF group = None
    THEN IF opt_name \in DOMAIN opts THEN Ok(opts[opt_name]) ELSE Raise("KeyError")
    ELSE LET g == GetGroup(group.v)
         IN  IF ~IsOk(g) THEN g
             ELSE IF opt_name \in DOMAIN g.val THEN Ok(g.val[opt_name])
             ELSE Raise("KeyError")

\* Opt._get_from_namespace: ConfigParser.get(group_name or 'DEFAULT', name).
GetFromNamespace(name, group) ==
    LET section == IF group = None THEN <<"D", "E", "F", "A", "U", "L", "T">> ELSE group.v
    IN  IF <<section, name>> \in DOMAIN namespace.view
        THEN Ok(PyStr(namespace.view[<<section, name>>]))
        ELSE Raise("NoOptionError")

\* _do_get with the order swapped: the default before the file override.
DoGet_DefaultFirst(name, group) ==
    IF group = None /\ name \in DOMAIN groups THEN Ok(GroupAttr(name))
    ELSE LET info == GetOptInfo(name, group)
         IN  IF ~IsOk(info) THEN info
             ELSE LET typ == OptPool[info.val].type
                      over == IF namespace = None THEN Raise("NoOptionError")
                              ELSE GetFromNamespace(name, group)
                  IN  IF opt_default[info.val] # None
                      THEN TypeCall(typ, opt_default[info.val])
                      ELSE IF IsOk(over) THEN TypeCall(typ, over.val)
                      ELSE Ok(None)

\* ConfigOpts._do_get
DoGet(name, group) ==
    IF group = None /\ name \in DOMAIN groups THEN Ok(GroupAttr(name))
    ELSE LET info == GetOptInfo(name, group)
         IN  IF ~IsOk(info) THEN info
             ELSE LET typ == OptPool[info.val].type
                      over == IF namespace = None THEN Raise("NoOptionError")
                              ELSE GetFromNamespace(name, group)
                  IN  IF IsOk(over) THEN TypeCall(typ, over.val)
                      ELSE IF opt_default[info.val] # None
                           THEN TypeCall(typ, opt_default[info.val])
                      ELSE Ok(None)

CacheKey(name, group) == <<group, PyStr(name)>>

\* The end of ConfigOpts._get when the cache c has no key: the value r that
\* _do_get returned is stored; an exception of _do_get stores nothing.
Computed(c, key, r) ==
    [out |-> r, hit |-> FALSE, cache |-> IF IsOk(r) THEN DictSet(c, key, r.val) ELSE c]

\* ConfigOpts._get on the cache c: the outcome, whether the cache served it,
\* and the cache it leaves.
Get(c, name, group) ==
    IF CacheKey(name, group) \in DOMAIN c
    THEN [out |-> Ok(c[CacheKey(name, group)]), hit |-> TRUE, cache |-> c]
    ELSE Computed(c, CacheKey(name, group), DoGet(name, group))

\* The except clauses of ConfigOpts.__getattr__ on the outcome r of _get.
Translated(r) ==
    IF IsOk(r.out) \/ Raises(r.out, "ValueError") THEN r
    ELSE [r EXCEPT !.out = Raise("NoSuchOptError")]

\* ConfigOpts.__getattr__: a ValueError passes, any other exception becomes
\* NoSuchOptError.
ConfGetAttr(c, name) == Translated(Get(c, name, None))

\* The attribute name of what CONF.<group_name> gave (top): an exception of
\* the first lookup ends the expression.
AttrOf(top, name) ==
    IF ~IsOk(top.out) THEN top
    ELSE IF top.out.val.k # "GroupAttr"
         THEN [top EXCEPT !.out = Raise("builtins.AttributeError"), !.hit = FALSE]
    ELSE Get(top.cache, name, PyStr(top.out.val.v))

\* The expression CONF.<group_name>.<name>: ConfigOpts.__getattr__ and then
\* GroupAttr.__getattr__ on the view it returned; a value that is no view
\* has no such attribute.
GroupGetAttr(c, group_name, name) == AttrOf(ConfGetAttr(c, group_name), name)

(***************************************************************************)
(* ConfigOpts: the calls.  Every method decorated with __clear_cache       *)
(* empties the cache after its body has returned; when the body raises,    *)
(* the cache is left as it was.                                            *)
(***************************************************************************)
\* The record of a call: hit tells that the cache served a lookup, and
\* follows that the call made just before the lookup was a set_default of
\* the same (group, name) that returned.
Call(op, group, name, arg, out, hit) ==
    [op |-> op, group |-> group, name |-> name, arg |-> arg, out |-> out, hit |-> hit,
     follows |-> FALSE]

FollowsSetDefault(group, name) ==
    last.op = "set_default" /\ IsOk(last.out) /\ last.group = group /\ last.name = name

\* ConfigOpts.register_group on the groups gs: the first registration wins.
RegisterGroupIn(gs, group_name) ==
    IF group_name \in DOMAIN gs THEN gs ELSE DictSet(gs, group_name, EmptyDict)

\* The body of ConfigOpts.register_opt on the registry <<top, gs>>.
RegisterOptIn(reg, o, group) ==
    IF group # None
    THEN LET gs == RegisterGroupIn(reg[2], group.v)
         IN  <<reg[1], [gs EXCEPT ![group.v] = DictSet(gs[group.v], OptPool[o].name, o)]>>
    ELSE <<DictSet(reg[1], OptPool[o].name, o), reg[2]>>

\* The loop of ConfigOpts.register_opts over the list os.
RECURSIVE RegisterOptsIn(_, _, _)
RegisterOptsIn(reg, os, group) ==
    IF os = <<>> THEN reg
    ELSE RegisterOptsIn(RegisterOptIn(reg, Head(os), group), Tail(os), group)

\* CONF.register_opt(opt, group)
RegisterOpt(o, group) ==
    LET reg == RegisterOptIn(<<opts, groups>>, o, group)
    IN  /\ opts' = reg[1]
        /\ groups' = reg[2]
        /\ cache' = EmptyDict
        /\ last' = Call("register_opt", group, OptPool[o].name, None, Ok(PyBool(TRUE)), FALSE)
        /\ UNCHANGED <<opt_default, namespace>>
        /\ UNCHANGED noncfg

\* CONF.register_opts(opts, group)
RegisterOpts(os, group) ==
    LET reg == RegisterOptsIn(<<opts, groups>>, os, group)
    IN  /\ opts' = reg[1]
        /\ groups' = reg[2]
        /\ cache' = EmptyDict
        /\ last' = Call("register_opts", group, <<>>, None, Ok(None), FALSE)
        /\ UNCHANGED <<opt_default, namespace>>
        /\ UNCHANGED noncfg

\* CONF.register_group(OptGroup(group_name))
RegisterGroup(group_name) ==
    /\ groups' = RegisterGroupIn(groups, group_name)
    /\ last' = Call("register_group", PyStr(group_name), <<>>, None, Ok(None), FALSE)
    /\ UNCHANGED <<opt_default, opts, namespace, cache>>
    /\ UNCHANGED noncfg

\* set_default without the decorator __clear_cache: the cache is kept.
SetDefault_KeepsCache(name, default, group) ==
    LET info == GetOptInfo(name, group)
        conv == IF IsOk(info) THEN TypeCall(OptPool[info.val].type, default) ELSE info
    IN  /\ last' = Call("set_default", group, name, default,
                        IF IsOk(conv) THEN Ok(None) ELSE conv, FALSE)
        /\ IF IsOk(conv)
           THEN opt_default' = [opt_default EXCEPT ![info.val] = conv.val]
           ELSE UNCHANGED opt_default
        /\ UNCHANGED <<opts, groups, namespace, cache>>
        /\ UNCHANGED noncfg

\* CONF.set_default(name, default, group)
SetDefault(name, default, group) ==
    LET info == GetOptInfo(name, group)
        conv == IF IsOk(info) THEN TypeCall(OptPool[info.val].type, default) ELSE info
    IN  /\ last' = Call("set_default", group, name, default,
                        IF IsOk(conv) THEN Ok(None) ELSE conv, FALSE)
        /\ IF IsOk(conv)
           THEN /\ opt_default' = [opt_default EXCEPT ![info.val] = conv.val]
                /\ cache' = EmptyDict
           ELSE UNCHANGED <<opt_default, cache>>
        /\ UNCHANGED <<opts, groups, namespace>>
        /\ UNCHANGED noncfg

\* A lookup of (group, name) that ended as r: the cache it leaves and its
\* record.
Lookup(r, group, name) ==
    /\ cache' = r.cache
    /\ last' = [Call("lookup", group, name, None, r.out, r.hit)
                    EXCEPT !.follows = FollowsSetDefault(group, name)]
    /\ UNCHANGED <<opt_default, opts, groups, namespace>>
    /\ UNCHANGED noncfg

\* CONF.<name> and CONF[name]
LookupTop(name) == Lookup(ConfGetAttr(cache, name), None, name)

\* CONF.<group_name>.<name> and CONF[group_name][name]
LookupGroup(group_name, name) ==
    Lookup(GroupGetAttr(cache, group_name, name), PyStr(group_name), name)

(***************************************************************************)
(* ConfigOpts: load(args), clear() and reset().  An argument is a string   *)
(* cut in pieces: '--config-file=f1' is <<"--config-file", "=", "f1">>.    *)
(***************************************************************************)
ArgList(args) == [k |-> "list", v |-> args]

\* ConfigOpts.get_config_file from the i-th argument on.  str has no method
\* partion, so the one-argument form raises.
RECURSIVE GetConfigFile(_, _)
GetConfigFile(args, i) ==
    IF i > Len(args) THEN Ok(None)
    ELSE IF args[i] = <<"--config-file">> /\ Len(args) > i THEN Ok(PyStr(args[i + 1]))
    ELSE IF Len(args[i]) >= 2 /\ args[i][1] = "--config-file" /\ args[i][2] = "="
         THEN Raise("builtins.AttributeError")
    ELSE GetConfigFile(args, i + 1)

LoadArgs ==
    { <<>>,
      << <<"--config-file">>, <<"f1">> >>,
      << <<"--config-file">>, <<"nofile">> >>,
      << <<"--config-file">> >>,
      << <<"--config-file", "=", "f1">> >> }

\* CONF(args), ConfigOpts.__call__
Load(args) ==
    LET file == GetConfigFile(args, 1)
        readable == IsOk(file) /\ file.val # None /\ file.val.v \in DOMAIN ConfigFiles
    IN  /\ namespace' =
              IF ~IsOk(file) \/ file.val = None THEN namespace
              ELSE IF readable THEN Parser(ConfigFiles[file.val.v])
              ELSE Parser(EmptyDict)
        /\ last' = Call("load", None, <<>>, ArgList(args),
                        IF ~IsOk(file) THEN file
                        ELSE IF file.val = None \/ readable THEN Ok(None)
                        ELSE Raise("Error"), FALSE)
        /\ UNCHANGED <<opt_default, opts, groups, cache>>
        /\ UNCHANGED noncfg

\* CONF.clear(): ConfigOpts has no unregister_opts, so the body raises from
\* __getattr__ after it has dropped the namespace, and the cache is kept.
Clear ==
    /\ namespace' = None
    /\ last' = Call("clear", None, <<>>, None, Raise("NoSuchOptError"), FALSE)
    /\ UNCHANGED <<opt_default, opts, groups, cache>>
    /\ UNCHANGED noncfg

\* CONF.reset(): ConfigOpts has no _unset_defaults_and_overrides either.
Reset ==
    /\ last' = Call("reset", None, <<>>, None, Raise("NoSuchOptError"), FALSE)
    /\ UNCHANGED <<opt_default, opts, groups, namespace, cache>>
    /\ UNCHANGED noncfg

(***************************************************************************)
(* Storage: the training table (db/sqlalchemy/api.py over db/models.py).   *)
(* A row has the columns of Training; an instance is a row read into a     *)
(* session, with whatever other attributes were set on it.  Every call of  *)
(* get_session() makes a new session, so an instance read in a later call  *)
(* has the columns only.                                                   *)
(***************************************************************************)
\* An attribute an instance does not have.
Absent == [k |-> "absent"]

\* The columns of Training that the model keeps (id is the key of rows).
Row(tenant_id, algorithm, deleted) ==
    [tenant_id |-> tenant_id, algorithm |-> algorithm, deleted |-> deleted]

\* A Training instance: the columns and the attribute model_data, which is
\* no column.
Instance(id, row, model_data) ==
    [id |-> id, tenant_id |-> row.tenant_id, algorithm |-> row.algorithm,
     deleted |-> row.deleted, model_data |-> model_data]

\* RequestContext(user_id, tenant_id, is_admin, read_deleted)
RequestContext(user_id, tenant_id, is_admin) ==
    [user_id |-> user_id, tenant_id |-> tenant_id, is_admin |-> is_admin,
     read_deleted |-> "no"]

\* is_admin_context
IsAdminContext(context) == context.is_admin

\* is_user_context
IsUserContext(context) ==
    ~context.is_admin /\ context.user_id # "" /\ context.tenant_id # ""

\* The decorator require_context: whether the wrapped function is entered.
RequireContext(context) == IsAdminContext(context) \/ IsUserContext(context)

\* model_query(context, models.Training, tenant_only=...) on the table t:
\* the ids of the rows the query selects.
ModelQuery(t, context, tenant_only) ==
    {id \in DOMAIN t :
        /\ IF context.read_deleted = "no" THEN ~t[id].deleted ELSE t[id].deleted
        /\ (tenant_only /\ IsUserContext(context)) => t[id].tenant_id = context.tenant_id}

\* training_get(context, training_id) in a new session on the table t.
TrainingGet(t, context, training_id) ==
    IF ~RequireContext(context) THEN Raise("NotAuthorized")
    ELSE IF training_id \in ModelQuery(t, context, TRUE)
         THEN Ok(Instance(training_id, t[training_id], Absent))
    ELSE Raise("NotFound")

\* The query of training_get_all_by_tenant with read_deleted ignored.
TrainingGetAllByTenant_ReadsDeleted(t, context, tenant_id) ==
    IF ~RequireContext(context) THEN Raise("NotAuthorized")
    ELSE Ok({id \in DOMAIN t : t[id].tenant_id = tenant_id})

\* training_get_all_by_tenant(context, tenant_id) on the table t: the ids of
\* the instances of the list.  The query is made without tenant_only.
TrainingGetAllByTenant(t, context, tenant_id) ==
    IF ~RequireContext(context) THEN Raise("NotAuthorized")
    ELSE Ok({id \in ModelQuery(t, context, FALSE) : t[id].tenant_id = tenant_id})

MaxTrainings == 1

TrainingIds == 1..MaxTrainings

\* uuid.generate_uuid(): an id no row has.
GenerateUuid(t) == CHOOSE id \in TrainingIds : id \notin DOMAIN t

\* training_create(context, training_values) on the table t: the outcome and
\* the table it leaves.  The instance is saved and read back in one session,
\* which returns the instance it holds; a failure inside the transaction
\* rolls the insert back.
TrainingCreate(t, context, values) ==
    LET id == IF values.id = None THEN GenerateUuid(t) ELSE values.id.v
        row == Row(values.tenant_id, values.algorithm, FALSE)
        t2 == DictSet(t, id, row)
    IN  IF ~RequireContext(context) THEN [out |-> Raise("NotAuthorized"), rows |-> t]
        ELSE IF id \in DOMAIN t THEN [out |-> Raise("IntegrityError"), rows |-> t]
        ELSE IF id \in ModelQuery(t2, context, TRUE)
             THEN [out |-> Ok(Instance(id, row, values.model_data)), rows |-> t2]
        ELSE [out |-> Raise("NotFound"), rows |-> t]

\* training_delete with the row removed from the table instead of marked.
TrainingDeleteIn_Removed(t, context, training_id) ==
    IF ~IsOk(TrainingGet(t, context, training_id))
    THEN [out |-> TrainingGet(t, context, training_id), rows |-> t]
    ELSE [out |-> Ok(None), rows |-> [id \in DOMAIN t \ {training_id} |-> t[id]]]

\* training_delete(context, training_id) on the table t: the row is marked.
TrainingDeleteIn(t, context, training_id) ==
    LET got == TrainingGet(t, context, training_id)
    IN  IF ~IsOk(got) THEN [out |-> got, rows |-> t]
        ELSE [out |-> Ok(None),
              rows |-> [t EXCEPT ![training_id].deleted = TRUE]]

(***************************************************************************)
(* MLManager (ml/manager.py).  What a driver does with the dataset and the *)
(* configuration is the environment of a call: whether the constructor of  *)
(* the driver returns, what its training returns or raises, and whether    *)
(* the data of the figure can be read.  The trace of a call is the list of *)
(* the steps it made, in order.                                            *)
(***************************************************************************)
ALGORITHM_MAPPING ==
    {<<"g", "a", "u", "s", "s", "i", "a", "n">>, <<"d", "b", "s", "c", "a", "n">>}

\* _get_algorithm falling back to its default name 'gaussian' when the name
\* is None or no key of the mapping.
GetAlgorithm_Fallback(name, constructs) ==
    IF ~constructs THEN Raise("NoSuchOptError")
    ELSE IF name.k = "str" /\ Lower(name.v) \in ALGORITHM_MAPPING
         THEN Ok(PyStr(Lower(name.v)))
    ELSE Ok(PyStr(<<"g", "a", "u", "s", "s", "i", "a", "n">>))

\* MLManager._get_algorithm(name) with import_object, which constructs the
\* driver: the key of the driver in the mapping.
GetAlgorithm(name, constructs) ==
    IF name.k # "str" THEN Raise("builtins.AttributeError")
    ELSE IF Lower(name.v) \notin ALGORITHM_MAPPING THEN Raise("KeyError")
    ELSE IF ~constructs THEN Raise("NoSuchOptError")
    ELSE Ok(PyStr(Lower(name.v)))

ImageFormats == {"png", "jpg", "jpeg", "raw", "tif", "tiff", "rgba"}

\* print_figure(fig, fmt)
PrintFigure(fig, fmt) ==
    IF fmt \notin ImageFormats THEN Raise("TypeError")
    ELSE Ok([k |-> "bytes", fmt |-> fmt])

\* Gaussian.get_training_figure and DBSCAN.get_training_figure on a Training
\* instance: the outcome and the steps made.  Both read the data first, then
\* the attribute model_data of the instance, then estimate and draw.
DriverGetTrainingFigure(training, readable) ==
    IF ~readable THEN [out |-> Raise("OSError"), steps |-> <<"read_data">>]
    ELSE IF training.model_data = Absent
         THEN [out |-> Raise("builtins.AttributeError"), steps |-> <<"read_data">>]
    ELSE [out |-> Ok([k |-> "figure", of |-> training.model_data]),
          steps |-> <<"read_data", "estimate">>]

\* The outcome of a step the call did not reach.
NotReached == Raise("not reached")

\* The record of a call: its arguments (the algorithm of the body, the id
\* and the format), its trace, and for each step what it returned or raised:
\* the driver resolved, the output of the training, the values passed to
\* training_create and its outcome, the ids of the rows the call added, the
\* instance training_get loaded, and the outcome of the call.
MLCall(op, arg, trace, steps, out) ==
    [op |-> op, algorithm |-> arg.algorithm, training_id |-> arg.training_id,
     fmt |-> arg.fmt, trace |-> trace, driver |-> steps.driver,
     trained |-> steps.trained, passed |-> steps.passed, stored |-> steps.stored,
     created |-> steps.created, loaded |-> steps.loaded, out |-> out]

NoArg == [algorithm |-> None, training_id |-> None, fmt |-> ""]

NoSteps ==
    [driver |-> NotReached, trained |-> NotReached, passed |-> None,
     stored |-> NotReached, created |-> {}, loaded |-> None]

\* A call on the storage alone: the call of MLManager's form, with the
\* context and the tenant_id argument of the call.
DbCall(op, ctx, tenant_id, training_id, out) ==
    [context |-> ctx, tenant_id |-> tenant_id]
        @@ MLCall(op, [NoArg EXCEPT !.training_id = training_id], <<op>>, NoSteps, out)

\* The output of the driver computed and not put in the values.
AttachModelData_Dropped(training, model_data) == training

\* training["model_data"] = <the output of the driver>
AttachModelData(training, model_data) == [training EXCEPT !.model_data = model_data]

\* MLManager.create_training(ctx, training)
CreateTraining(ctx, training, constructs, train) ==
    LET driver == GetAlgorithm(training.algorithm, constructs)
        trained == IF IsOk(driver) THEN train ELSE NotReached
        values == IF IsOk(trained) THEN AttachModelData(training, trained.val)
                  ELSE training
        st == IF IsOk(trained) THEN TrainingCreate(rows, ctx, values)
              ELSE [out |-> NotReached, rows |-> rows]
        trace == <<"resolve">> \o (IF IsOk(driver) THEN <<"train">> ELSE <<>>)
                    \o (IF IsOk(trained) THEN <<"training_create">> ELSE <<>>)
    IN  /\ IsOk(trained) => DOMAIN rows # TrainingIds
        /\ rows' = st.rows
        /\ produced' = IF IsOk(st.out) THEN DictSet(produced, st.out.val.id, trained.val)
                       ELSE produced
        /\ ml_last' = MLCall("create_training",
                             [NoArg EXCEPT !.algorithm = training.algorithm], trace,
                             [NoSteps EXCEPT !.driver = driver, !.trained = trained,
                                             !.passed = IF IsOk(trained) THEN values ELSE None,
                                             !.stored = st.out,
                                             !.created = DOMAIN st.rows \ DOMAIN rows],
                             IF ~IsOk(driver) THEN driver
                             ELSE IF ~IsOk(trained) THEN trained
                             ELSE st.out)
        /\ UNCHANGED nonml

\* MLManager.get_training_figure(ctx, training_id, fmt)
GetTrainingFigure(ctx, training_id, fmt, constructs, readable) ==
    LET training == TrainingGet(rows, ctx, training_id)
        driver == IF IsOk(training) THEN GetAlgorithm(training.val.algorithm, constructs)
                  ELSE NotReached
        fig == IF IsOk(driver) THEN DriverGetTrainingFigure(training.val, readable)
               ELSE [out |-> NotReached, steps |-> <<>>]
        printed == IF IsOk(fig.out) THEN PrintFigure(fig.out.val, fmt) ELSE NotReached
        trace == <<"training_get">> \o (IF IsOk(training) THEN <<"resolve">> ELSE <<>>)
                    \o (IF IsOk(driver) THEN <<"get_training_figure">> \o fig.steps ELSE <<>>)
                    \o (IF IsOk(fig.out) THEN <<"print_figure">> ELSE <<>>)
    IN  /\ ml_last' = MLCall("get_training_figure",
                             [NoArg EXCEPT !.training_id = PyInt(training_id), !.fmt = fmt],
                             trace,
                             [NoSteps EXCEPT !.driver = driver,
                                             !.loaded = IF IsOk(training) THEN training.val
                                                        ELSE None],
                             IF ~IsOk(training) THEN training
                             ELSE IF ~IsOk(driver) THEN driver
                             ELSE IF ~IsOk(fig.out) THEN fig.out
                             ELSE printed)
        /\ UNCHANGED <<rows, produced>>
        /\ UNCHANGED nonml

\* db.training_delete(ctx, training_id), the DELETE handler of the API
TrainingDelete(ctx, training_id) ==
    LET st == TrainingDeleteIn(rows, ctx, training_id)
    IN  /\ rows' = st.rows
        /\ ml_last' = DbCall("training_delete", ctx, "", PyInt(training_id), st.out)
        /\ UNCHANGED produced
        /\ UNCHANGED nonml

\* GET <tenant_id>/training/<training_id> (api/v1beta/training.py, _get):
\* db.training_get(ctx, training_id).
Get_(ctx, training_id) ==
    /\ ml_last' = DbCall("training_get", ctx, "", PyInt(training_id),
                         TrainingGet(rows, ctx, training_id))
    /\ UNCHANGED <<rows, produced>>
    /\ UNCHANGED nonml

\* GET <tenant_id>/training (api/v1beta/training.py, index):
\* db.training_get_all_by_tenant(ctx, tenant_id).
Index(ctx, tenant_id) ==
    /\ ml_last' = DbCall("training_get_all_by_tenant", ctx, tenant_id, None,
                         TrainingGetAllByTenant(rows, ctx, tenant_id))
    /\ UNCHANGED <<rows, produced>>
    /\ UNCHANGED nonml

\* The contexts of the callers: the admin context the middleware builds, a
\* user of another tenant, and a context that is neither admin nor user.
Contexts ==
    { RequestContext("u1", "t1", TRUE),
      RequestContext("u2", "t2", FALSE),
      RequestContext("", "", FALSE) }

Tenants == {"t1", "t2"}

\* The algorithm field of a request body; None when the body has none.
AlgorithmInputs ==
    { None,
      PyStr(<<"g", "a", "u", "s", "s", "i", "a", "n">>),
      PyStr(<<"D", "B", "S", "C", "A", "N">>),
      PyStr(<<"f", "o", "o">>) }

\* The request bodies, with the tenant_id of the URL put in: they carry no
\* id, and model_data is None until create_training sets it.
Bodies ==
    [id : {None}, tenant_id : Tenants,
     algorithm : AlgorithmInputs, model_data : {None}]

\* The serialized parameters a training can return.
ModelDocs == {PyStr(<<"m", "1">>), PyStr(<<"m", "2">>)}

\* What the training of a driver returns or raises.
TrainOutcomes == {Ok(d) : d \in ModelDocs} \cup {Raise("OSError")}

FormatInputs == {"png", "bmp"}

MLInit ==
    /\ rows = EmptyDict
    /\ produced = EmptyDict
    /\ ml_last = MLCall("init", NoArg, <<>>, NoSteps, Ok(None))

\* What the training does in a call that resolves the driver as driver: it
\* runs only when the driver was resolved.
TrainEnv(driver) == IF IsOk(driver) THEN TrainOutcomes ELSE {NotReached}

\* Whether the data of the figure can be read, in a call that loads the
\* training as training: the data is read only when a training was loaded.
ReadEnv(training) == IF IsOk(training) THEN BOOLEAN ELSE {FALSE}

MLNext ==
    \/ \E ctx \in Contexts, training \in Bodies, constructs \in BOOLEAN :
          \E train \in TrainEnv(GetAlgorithm(training.algorithm, constructs)) :
             CreateTraining(ctx, training, constructs, train)
    \/ \E ctx \in Contexts, id \in TrainingIds, fmt \in FormatInputs,
            constructs \in BOOLEAN :
          \E readable \in ReadEnv(TrainingGet(rows, ctx, id)) :
             GetTrainingFigure(ctx, id, fmt, constructs, readable)
    \/ \E ctx \in Contexts, id \in TrainingIds : TrainingDelete(ctx, id)
    \/ \E ctx \in Contexts, id \in TrainingIds : Get_(ctx, id)
    \/ \E ctx \in Contexts, tenant_id \in Tenants : Index(ctx, tenant_id)

(***************************************************************************)
(* The configuration specification                                         *)
(***************************************************************************)
\* The values set_default is called with.
DefaultInputs == {PyStr(<<"1">>)}

\* The names lookups and set_default are called with: every option name.
LookupNames == OptNames

MaxOptsList == 2

\* The lists register_opts is called with.
OptLists == UNION {[1..n -> OptIds] : n \in 0..MaxOptsList}

CfgInit ==
    /\ \A o \in OptIds : OptInit(OptPool[o])
    /\ opt_default = [o \in OptIds |-> OptPool[o].default]
    /\ opts = EmptyDict
    /\ groups = EmptyDict
    /\ namespace = None
    /\ cache = EmptyDict
    /\ last = Call("init", None, <<>>, None, Ok(None), FALSE)

Init == CfgInit /\ MLInit /\ FnIdle

CfgNext ==
    \/ \E o \in OptIds, group \in GroupArgs : RegisterOpt(o, group)
    \/ \E os \in OptLists, group \in GroupArgs : RegisterOpts(os, group)
    \/ \E g \in GroupNames : RegisterGroup(g)
    \/ \E name \in LookupNames, d \in DefaultInputs, group \in GroupArgs :
          SetDefault(name, d, group)
    \/ \E name \in LookupNames : LookupTop(name)
    \/ \E g \in GroupNames, name \in LookupNames : LookupGroup(g, name)
    \/ \E args \in LoadArgs : Load(args)
    \/ Clear
    \/ Reset

\* The options registry alone, and the manager over the storage alone.
Spec == Init /\ [][CfgNext]_vars

SpecML == Init /\ [][MLNext]_vars

\* Group names that differ in letter case only.
CaseNames == {<<"g">>, <<"G">>}

\* The registry and the lookups under the names of CaseNames.
GroupsNext ==
    \/ \E g \in CaseNames : RegisterGroup(g)
    \/ \E o \in OptIds, g \in CaseNames : RegisterOpt(o, PyStr(g))
    \/ \E g \in CaseNames, name \in LookupNames : LookupGroup(g, name)

SpecGroups == Init /\ [][GroupsNext]_vars

(***************************************************************************)
(* bytes, str and base64 (the standard library, as np_json.py uses it).    *)
(* A bytes object is a sequence of numbers 0..255.                         *)
(***************************************************************************)
PyBytes(b) == [k |-> "bytes", v |-> b]

PyList(items) == [k |-> "list", v |-> items]

PyTuple(items) == [k |-> "tuple", v |-> items]

PySet(elems) == [k |-> "set", v |-> elems]

PyComplex(re, im) == [k |-> "complex", re |-> re, im |-> im]

PyDict(f) == [k |-> "dict", v |-> f]

\* The base64 alphabet: the character of every 6-bit number, from 0.
B64Alphabet ==
    << "A", "B", "C", "D", "E", "F", "G", "H", "I", "J", "K", "L", "M",
       "N", "O", "P", "Q", "R", "S", "T", "U", "V", "W", "X", "Y", "Z",
       "a", "b", "c", "d", "e", "f", "g", "h", "i", "j", "k", "l", "m",
       "n", "o", "p", "q", "r", "s", "t", "u", "v", "w", "x", "y", "z",
       "0", "1", "2", "3", "4", "5", "6", "7", "8", "9", "+", "/" >>

\* The ASCII code of the character of the 6-bit number n.
B64Code(n) ==
    IF n < 26 THEN 65 + n
    ELSE IF n < 52 THEN 97 + (n - 26)
    ELSE IF n < 62 THEN 48 + (n - 52)
    ELSE IF n = 62 THEN 43 ELSE 47

PadCode == 61

B64Codes == {B64Code(n) : n \in 0..63}

\* The 6-bit number whose character has the ASCII code c.
B64Index(c) == CHOOSE n \in 0..63 : B64Code(n) = c

\* bytes.decode() and str.encode() on text of the base64 alphabet and '='.
AsciiChar(c) == IF c = PadCode THEN "=" ELSE B64Alphabet[B64Index(c) + 1]

\* (0 stands for the code of any other character: b64decode drops them all)
AsciiCode(ch) ==
    IF ch = "=" THEN PadCode
    ELSE IF \E i \in 1..64 : B64Alphabet[i] = ch
         THEN B64Code((CHOOSE i \in 1..64 : B64Alphabet[i] = ch) - 1)
    ELSE 0

BytesDecode(b) == [i \in 1..Len(b) |-> AsciiChar(b[i])]

StrEncode(t) == [i \in 1..Len(t) |-> AsciiCode(t[i])]

\* The four characters of a group of three bytes, the last ones replaced by
\* '=' when the group has one or two bytes only.
B64Group(g) ==
    LET n == g[1] * 65536 + (IF Len(g) > 1 THEN g[2] * 256 ELSE 0)
                + (IF Len(g) > 2 THEN g[3] ELSE 0)
    IN  << B64Code(n \div 262144), B64Code((n \div 4096) % 64),
           IF Len(g) > 1 THEN B64Code((n \div 64) % 64) ELSE PadCode,
           IF Len(g) > 2 THEN B64Code(n % 64) ELSE PadCode >>

\* base64.b64encode(b): bytes
RECURSIVE B64Encode(_)
B64Encode(b) ==
    IF b = <<>> THEN <<>>
    ELSE IF Len(b) <= 3 THEN B64Group(b)
    ELSE B64Group(SubSeq(b, 1, 3)) \o B64Encode(SubSeq(b, 4, Len(b)))

\* The bytes of a group of four characters; the padding is at its end.
B64Ungroup(q) ==
    LET pad == IF q[3] = PadCode THEN 2 ELSE IF q[4] = PadCode THEN 1 ELSE 0
        n == B64Index(q[1]) * 262144 + B64Index(q[2]) * 4096
                + (IF pad < 2 THEN B64Index(q[3]) * 64 ELSE 0)
                + (IF pad < 1 THEN B64Index(q[4]) ELSE 0)
    IN  SubSeq(<<n \div 65536, (n \div 256) % 256, n % 256>>, 1, 3 - pad)

\* A group of four characters is well formed: padding only at its end.
B64GroupOk(q, is_last) ==
    /\ q[1] # PadCode /\ q[2] # PadCode
    /\ q[3] = PadCode => q[4] = PadCode
    /\ q[4] = PadCode => is_last

RECURSIVE B64DecodeGroups(_)
B64DecodeGroups(c) ==
    IF c = <<>> THEN Ok(<<>>)
    ELSE IF Len(c) < 4 \/ ~B64GroupOk(SubSeq(c, 1, 4), Len(c) = 4)
         THEN Raise("binascii.Error")
    ELSE LET rest == B64DecodeGroups(SubSeq(c, 5, Len(c)))
         IN  IF IsOk(rest) THEN Ok(B64Ungroup(SubSeq(c, 1, 4)) \o rest.val) ELSE rest

\* base64.b64decode(s) of a bytes or an ASCII str: the characters outside
\* the alphabet are dropped, and wrong padding raises.
B64Decode(s) ==
    IF s.k \notin {"bytes", "str"} THEN Raise("TypeError")
    ELSE LET c == IF s.k = "str" THEN StrEncode(s.v) ELSE s.v
             kept == SelectSeq(c, LAMBDA x : x \in B64Codes \cup {PadCode})
             r == B64DecodeGroups(kept)
         IN  IF IsOk(r) THEN Ok(PyBytes(r.val)) ELSE r

(***************************************************************************)
(* numpy arrays and scalars, as np_json.py uses them.  An array is its     *)
(* dtype (as dtype.str), its shape and the bytes of its elements in C      *)
(* order, which is what tostring() returns.                                *)
(***************************************************************************)
NdArray(dtype, shape, data) ==
    [k |-> "ndarray", dtype |-> dtype, shape |-> shape, data |-> data]

\* A numpy scalar (np.generic): its dtype and the bytes of the element.
NpGeneric(dtype, data) == [k |-> "npgeneric", dtype |-> dtype, data |-> data]

\* A Python float, by the bytes of its value.
PyFloat(data) == [k |-> "float", data |-> data]

Float64 == <<"<", "f", "8">>

Int64 == <<"<", "i", "8">>

Bool8 == <<"|", "b", "1">>

\* dtype.str of the dtypes of the program's arrays
DtypeStrs == {Float64, Int64, Bool8}

\* dtype.itemsize: the digit that ends dtype.str
ItemSize(dtype) == DigitVal(dtype[Len(dtype)])

\* np.dtype(s) of what a document holds under 'dtype'
NpDtype(s) ==
    IF s.k = "str" /\ s.v \in DtypeStrs THEN Ok(s.v) ELSE Raise("TypeError")

RECURSIVE Product(_)
Product(shape) == IF shape = <<>> THEN 1 ELSE Head(shape) * Product(Tail(shape))

\* np.fromstring(raw, dtype=dtype): a one-dimensional array
FromString(raw, dtype) ==
    IF Len(raw) % ItemSize(dtype) # 0 THEN Raise("ValueError")
    ELSE Ok(NdArray(dtype, <<Len(raw) \div ItemSize(dtype)>>, raw))

\* The array left as fromstring made it: one dimension.
Reshape_Kept(a, shape) == Ok(a)

\* a.reshape(shape) with the list a document holds under 'shape'
Reshape(a, shape) ==
    IF shape.k \notin {"list", "tuple"} \/ \E i \in DOMAIN shape.v : shape.v[i].k # "int"
    THEN Raise("TypeError")
    ELSE IF Product([i \in DOMAIN shape.v |-> shape.v[i].v]) # Product(a.shape)
         THEN Raise("ValueError")
    ELSE Ok([a EXCEPT !.shape = [i \in DOMAIN shape.v |-> shape.v[i].v]])

\* a[0] of a one-dimensional array: a numpy scalar
FirstElement(a) ==
    IF a.shape[1] = 0 THEN Raise("IndexError")
    ELSE Ok(NpGeneric(a.dtype, SubSeq(a.data, 1, ItemSize(a.dtype))))

(***************************************************************************)
(* complex: repr() and complex(str), for parts that are whole numbers      *)
(***************************************************************************)
\* complex.__repr__: '2j' when the real part is 0, else '(1+2j)'
ComplexRepr(z) ==
    IF z.re = 0 THEN StrOf(PyInt(z.im)) \o <<"j">>
    ELSE <<"(">> \o StrOf(PyInt(z.re)) \o (IF z.im < 0 THEN <<>> ELSE <<"+">>)
            \o StrOf(PyInt(z.im)) \o <<"j", ")">>

\* The place of the sign that starts the imaginary part of t, 0 when none.
RECURSIVE SignPlace(_, _)
SignPlace(t, i) ==
    IF i <= 1 THEN 0 ELSE IF t[i] \in {"+", "-"} THEN i ELSE SignPlace(t, i - 1)

\* The complex of the two parts, when both are numbers.
ComplexOf(re, im) ==
    IF ~IsOk(re) THEN re ELSE IF ~IsOk(im) THEN im
    ELSE Ok(PyComplex(re.val.v, im.val.v))

\* complex(s) of a str without its parentheses
ComplexBody(t) ==
    IF t # <<>> /\ t[Len(t)] = "j"
    THEN IF SignPlace(t, Len(t) - 1) = 0
         THEN ComplexOf(Ok(PyInt(0)), IntOfStr(SubSeq(t, 1, Len(t) - 1)))
         ELSE ComplexOf(IntOfStr(SubSeq(t, 1, SignPlace(t, Len(t) - 1) - 1)),
                        IntOfStr(SubSeq(t, SignPlace(t, Len(t) - 1), Len(t) - 1)))
    ELSE ComplexOf(IntOfStr(t), Ok(PyInt(0)))

\* complex(s)
ComplexParse(s) ==
    IF s.k # "str" THEN Raise("TypeError")
    ELSE IF Strip(s.v) # <<>> /\ Head(Strip(s.v)) = "("
         THEN IF Strip(s.v)[Len(Strip(s.v))] = ")"
              THEN ComplexBody(Strip(SubSeq(Strip(s.v), 2, Len(Strip(s.v)) - 1)))
              ELSE Raise("ValueError")
    ELSE ComplexBody(Strip(s.v))

(***************************************************************************)
(* utils/np_json.py: json.dumps with default=to_json and json.loads with   *)
(* object_hook=from_json.  The text between the two is a JSON value: None, *)
(* bool, int, float, str, a list of JSON values or a dict of them.         *)
(***************************************************************************)
K_ndarray == <<"_", "_", "n", "d", "a", "r", "r", "a", "y", "_", "_">>

K_npgeneric == <<"_", "_", "n", "p", "g", "e", "n", "e", "r", "i", "c", "_", "_">>

K_dtype == <<"d", "t", "y", "p", "e">>

K_shape == <<"s", "h", "a", "p", "e">>

K_set == <<"_", "_", "s", "e", "t", "_", "_">>

K_tuple == <<"_", "_", "t", "u", "p", "l", "e", "_", "_">>

K_complex == <<"_", "_", "c", "o", "m", "p", "l", "e", "x", "_", "_">>

K_bytes == <<"_", "_", "b", "y", "t", "e", "s", "_", "_">>

\* list(obj) of a set: its elements in some order
RECURSIVE ListOfSet(_)
ListOfSet(S) ==
    IF S = {} THEN <<>>
    ELSE LET x == CHOOSE y \in S : TRUE IN <<x>> \o ListOfSet(S \ {x})

\* to_json(obj), the default of the encoder
ToJson(obj) ==
    CASE obj.k = "ndarray" ->
            Ok(PyDict(K_ndarray :> PyBytes(B64Encode(obj.data))
                      @@ K_dtype :> PyStr(obj.dtype)
                      @@ K_shape :> PyTuple([i \in DOMAIN obj.shape |-> PyInt(obj.shape[i])])))
      [] obj.k = "npgeneric" ->
            Ok(PyDict(K_npgeneric :> PyBytes(B64Encode(obj.data))
                      @@ K_dtype :> PyStr(obj.dtype)))
      [] obj.k = "set" -> Ok(PyDict(K_set :> PyList(ListOfSet(obj.v))))
      [] obj.k = "tuple" -> Ok(PyDict(K_tuple :> PyList(obj.v)))
      [] obj.k = "complex" -> Ok(PyDict(K_complex :> PyStr(ComplexRepr(obj))))
      [] obj.k = "bytes" -> Ok(PyDict(K_bytes :> PyStr(BytesDecode(B64Encode(obj.v)))))
      [] OTHER -> Raise("TypeError")

\* What the encoder writes without calling default: None, bool, int and str
\* as they are, a float (np.float64 is a subclass of float) as a float, a
\* list or a tuple as a list, a dict as a dict.
Native(v) ==
    \/ v.k \in {"None", "bool", "int", "str", "float", "list", "tuple", "dict"}
    \/ v.k = "npgeneric" /\ v.dtype = Float64

\* The outcomes in order when all are values, else the first exception.
Collected(outs) ==
    IF \A i \in DOMAIN outs : IsOk(outs[i])
    THEN Ok([i \in DOMAIN outs |-> outs[i].val])
    ELSE outs[CHOOSE i \in DOMAIN outs :
                 ~IsOk(outs[i]) /\ \A j \in DOMAIN outs : j < i => IsOk(outs[j])]

\* The outcomes by key when all are values, else one of the exceptions.
CollectedItems(outs) ==
    IF \A key \in DOMAIN outs : IsOk(outs[key])
    THEN Ok([key \in DOMAIN outs |-> outs[key].val])
    ELSE outs[CHOOSE key \in DOMAIN outs : ~IsOk(outs[key])]

\* A list of the items, or the exception met.
ListOf(items) == IF IsOk(items) THEN Ok(PyList(items.val)) ELSE items

DictOf(items) == IF IsOk(items) THEN Ok(PyDict(items.val)) ELSE items

\* json.dumps(v, default=to_json): the JSON value written
RECURSIVE Dumps(_)
Dumps(v) ==
    IF ~Native(v) THEN (IF IsOk(ToJson(v)) THEN Dumps(ToJson(v).val) ELSE ToJson(v))
    ELSE IF v.k = "npgeneric" THEN Ok(PyFloat(v.data))
    ELSE IF v.k \in {"list", "tuple"}
         THEN ListOf(Collected([i \in DOMAIN v.v |-> Dumps(v.v[i])]))
    ELSE IF v.k = "dict"
         THEN DictOf(CollectedItems([key \in DOMAIN v.v |-> Dumps(v.v[key])]))
    ELSE Ok(v)

\* hash(v) works: what set() takes as an element
RECURSIVE Hashable(_)
Hashable(v) ==
    /\ v.k \notin {"list", "dict", "set", "ndarray"}
    /\ v.k = "tuple" => \A i \in DOMAIN v.v : Hashable(v.v[i])

\* set(items) of a list
SetOfList(items) ==
    IF items.k \notin {"list", "tuple"} \/ \E i \in DOMAIN items.v : ~Hashable(items.v[i])
    THEN Raise("TypeError")
    ELSE Ok(PySet({items.v[i] : i \in DOMAIN items.v}))

\* tuple(items) of a list
TupleOfList(items) ==
    IF items.k \notin {"list", "tuple"} THEN Raise("TypeError")
    ELSE Ok(PyTuple(items.v))

\* obj[key] of the dict obj
Item(obj, key) == IF key \in DOMAIN obj.v THEN Ok(obj.v[key]) ELSE Raise("KeyError")

\* np.fromstring(raw, dtype=np.dtype(d)) of the outcomes raw and d
FromStringOf(raw, d) ==
    IF ~IsOk(raw) THEN raw
    ELSE IF ~IsOk(d) THEN d
    ELSE IF ~IsOk(NpDtype(d.val)) THEN NpDtype(d.val)
    ELSE FromString(raw.val.v, NpDtype(d.val).val)

ReshapeOf(a, shape) ==
    IF ~IsOk(a) THEN a ELSE IF ~IsOk(shape) THEN shape ELSE Reshape(a.val, shape.val)

FirstElementOf(a) == IF IsOk(a) THEN FirstElement(a.val) ELSE a

\* from_json(obj), the object_hook of the decoder, on a dict
FromJson(obj) ==
    IF obj.k # "dict" THEN Ok(obj)
    ELSE IF K_ndarray \in DOMAIN obj.v
         THEN ReshapeOf(FromStringOf(B64Decode(obj.v[K_ndarray]), Item(obj, K_dtype)),
                        Item(obj, K_shape))
    ELSE IF K_npgeneric \in DOMAIN obj.v
         THEN FirstElementOf(FromStringOf(B64Decode(obj.v[K_npgeneric]), Item(obj, K_dtype)))
    ELSE IF K_set \in DOMAIN obj.v THEN SetOfList(obj.v[K_set])
    ELSE IF K_tuple \in DOMAIN obj.v THEN TupleOfList(obj.v[K_tuple])
    ELSE IF K_complex \in DOMAIN obj.v THEN ComplexParse(obj.v[K_complex])
    ELSE IF K_bytes \in DOMAIN obj.v THEN B64Decode(obj.v[K_bytes])
    ELSE Ok(obj)

HookOf(d) == IF IsOk(d) THEN FromJson(d.val) ELSE d

\* json.loads(text, object_hook=from_json) of the JSON value w: the hook is
\* called on every dict once its values are decoded.
RECURSIVE Loads(_)
Loads(w) ==
    IF w.k = "list" THEN ListOf(Collected([i \in DOMAIN w.v |-> Loads(w.v[i])]))
    ELSE IF w.k = "dict"
         THEN HookOf(DictOf(CollectedItems([key \in DOMAIN w.v |-> Loads(w.v[key])])))
    ELSE Ok(w)

\* np_json.loads(np_json.dumps(v))
RoundTrip(v) == IF IsOk(Dumps(v)) THEN Loads(Dumps(v).val) ELSE Dumps(v)

\* The largest number of elements of an array, and of its dimensions.
MaxElems == 2

MaxDims == 2

\* The largest length of a raw byte string.
MaxBytes == 2

\* The shapes of the arrays: up to MaxDims dimensions, up to MaxElems elements.
Shapes ==
    {sh \in UNION {[1..n -> 0..MaxElems] : n \in 0..MaxDims} : Product(sh) <= MaxElems}

\* Some elements of each dtype, by their bytes (little endian): the floats
\* 1.0, -0.0 and a NaN; the integers 0, 1 and -1; False and True.
Elements(dtype) ==
    IF dtype = Float64
    THEN {<<0, 0, 0, 0, 0, 0, 240, 63>>, <<0, 0, 0, 0, 0, 0, 0, 128>>,
          <<1, 0, 0, 0, 0, 0, 248, 127>>}
    ELSE IF dtype = Int64
         THEN {<<0, 0, 0, 0, 0, 0, 0, 0>>, <<1, 0, 0, 0, 0, 0, 0, 0>>,
               <<255, 255, 255, 255, 255, 255, 255, 255>>}
    ELSE {<<0>>, <<1>>}

\* The bytes of a sequence of elements.
RECURSIVE Flat(_)
Flat(elems) == IF elems = <<>> THEN <<>> ELSE Head(elems) \o Flat(Tail(elems))

Arrays ==
    UNION {{NdArray(dtype, sh, Flat(elems)) : elems \in [1..Product(sh) -> Elements(dtype)]} :
              dtype \in DtypeStrs, sh \in Shapes}

\* The sets, tuples, complex numbers and raw byte strings of a document.
Tagged ==
    {PyTuple(<<>>), PyTuple(<<PyInt(1), PyInt(2)>>), PySet({}), PySet({PyInt(1), PyInt(2)})}
        \cup {PyComplex(re, im) : re \in {-1, 0, 2}, im \in {-1, 0, 2}}
        \cup {PyBytes(b) : b \in UNION {[1..n -> {0, 65, 255}] : n \in 0..MaxBytes}}

\* The documents: a value alone, as the value of a key, or as an item of a list.
Documents ==
    Arrays \cup Tagged
        \cup {PyDict(<<"p">> :> v) : v \in Arrays \cup Tagged}
        \cup {PyList(<<v>>) : v \in Tagged}

NpJsonInit == CfgInit /\ MLInit /\ fn_in \in Documents /\ fn_out = NotCalled

\* np_json.dumps(fn_in)
NpJsonDumps ==
    /\ fn_out = NotCalled
    /\ fn_out' = [wire |-> Dumps(fn_in), back |-> NotCalled]
    /\ UNCHANGED <<fn_in, nonfn>>

\* np_json.loads of the text written
NpJsonLoads ==
    /\ fn_out # NotCalled /\ fn_out.back = NotCalled /\ IsOk(fn_out.wire)
    /\ fn_out' = [fn_out EXCEPT !.back = Loads(fn_out.wire.val)]
    /\ UNCHANGED <<fn_in, nonfn>>

NpJsonNext == NpJsonDumps \/ NpJsonLoads

SpecNpJson == NpJsonInit /\ [][NpJsonNext]_vars

(***************************************************************************)
(* ml/algorithms/gaussian.py: select_threshold_by_cv(probs, gt).  The      *)
(* probabilities are whole numbers here, and a threshold is written as     *)
(* ScanSteps times its value, so that every candidate is a whole number.   *)
(* An F1 score is a fraction <<numerator, denominator>>.                   *)
(***************************************************************************)
\* step_size = (max(probs) - min(probs)) / 1000
ScanSteps == 1000

RECURSIVE SeqMax(_)
SeqMax(xs) ==
    IF Len(xs) = 1 THEN xs[1]
    ELSE IF xs[1] >= SeqMax(Tail(xs)) THEN xs[1] ELSE SeqMax(Tail(xs))

RECURSIVE SeqMin(_)
SeqMin(xs) ==
    IF Len(xs) = 1 THEN xs[1]
    ELSE IF xs[1] <= SeqMin(Tail(xs)) THEN xs[1] ELSE SeqMin(Tail(xs))

\* The k-th element of np.arange(min(probs), max(probs), step_size), from 0
Epsilon(probs, k) == ScanSteps * SeqMin(probs) + k * (SeqMax(probs) - SeqMin(probs))

\* predictions = (probs < epsilon)
Predictions(probs, epsilon) == [i \in DOMAIN probs |-> ScanSteps * probs[i] < epsilon]

\* f1_score(gt, predictions, average="binary"): 2 tp / (2 tp + fp + fn),
\* and 0 when nothing is predicted or labelled positive.
F1Score(gt, predictions) ==
    LET tp == Cardinality({i \in DOMAIN gt : gt[i] = 1 /\ predictions[i]})
        fp == Cardinality({i \in DOMAIN gt : gt[i] = 0 /\ predictions[i]})
        fn == Cardinality({i \in DOMAIN gt : gt[i] = 1 /\ ~predictions[i]})
    IN  IF tp = 0 THEN <<0, 1>> ELSE <<2 * tp, 2 * tp + fp + fn>>

\* f > g, for two fractions
Greater(f, g) == f[1] * g[2] > g[1] * f[2]

\* The body of the loop with a tie replacing the best: f >= best_f1.
Scanned_Last(best, f, epsilon) ==
    IF ~Greater(best.best_f1, f) THEN [best_f1 |-> f, best_epsilon |-> epsilon] ELSE best

\* The body of the loop: if f > best_f1, f and epsilon become the best.
Scanned(best, f, epsilon) ==
    IF Greater(f, best.best_f1) THEN [best_f1 |-> f, best_epsilon |-> epsilon] ELSE best

\* The state of the loop before its k-th iteration, from 0.
Scanning(k, best) == [kind |-> "scanning", k |-> k, best |-> best]

\* The entry of select_threshold_by_cv, up to the loop; np.arange with a
\* step of 0 raises.
SelectThresholdByCv(probs, gt) ==
    IF SeqMax(probs) = SeqMin(probs) THEN Raise("builtins.ValueError")
    ELSE Scanning(0, [best_f1 |-> <<0, 1>>, best_epsilon |-> 0])

\* One iteration of the loop over the candidates.
ScanStep(probs, gt, at) ==
    Scanning(at.k + 1,
             Scanned(at.best, F1Score(gt, Predictions(probs, Epsilon(probs, at.k))),
                     Epsilon(probs, at.k)))

\* The largest number of points of a data set.
MaxPoints == 3

\* The values of a probability.
ProbValues == {0, 1, 3}

\* The cross-validation sets: the probability and the label of every point.
CvSets ==
    UNION {[probs : [1..n -> ProbValues], gt : [1..n -> {0, 1}]] : n \in 1..MaxPoints}

GaussianInit == CfgInit /\ MLInit /\ fn_in \in CvSets /\ fn_out = NotCalled

SelectThreshold ==
    /\ fn_out = NotCalled
    /\ fn_out' = SelectThresholdByCv(fn_in.probs, fn_in.gt)
    /\ UNCHANGED <<fn_in, nonfn>>

SelectThresholdScan ==
    /\ fn_out.kind = "scanning"
    /\ fn_out.k < ScanSteps
    /\ fn_out' = ScanStep(fn_in.probs, fn_in.gt, fn_out)
    /\ UNCHANGED <<fn_in, nonfn>>

\* return best_f1, best_epsilon
SelectThresholdReturn ==
    /\ fn_out.kind = "scanning"
    /\ fn_out.k = ScanSteps
    /\ fn_out' = Ok(fn_out.best)
    /\ UNCHANGED <<fn_in, nonfn>>

GaussianNext == SelectThreshold \/ SelectThresholdScan \/ SelectThresholdReturn

SpecGaussian == GaussianInit /\ [][GaussianNext]_vars

(***************************************************************************)
(* ml/algorithms/dbscan.py: _select_parameter(dataset, labels_true).  An   *)
(* epsilon is written in tenths (1.0 is 10).  The adjusted Rand score of   *)
(* the clustering of each pair is an input: a table over the grid, whose   *)
(* entries are whole numbers standing for the levels of the score.         *)
(***************************************************************************)
\* epsilons = np.arange(1, 4, 0.1): 1.0, 1.1, ..., 3.9
EpsFirst == 10
EpsLast == 39

\* range(5, 20, 1)
MinSamplesFirst == 5
MinSamplesLast == 19

\* best_ep = 10
InitialEp == 100

Grid == (EpsFirst..EpsLast) \X (MinSamplesFirst..MinSamplesLast)

\* The state of the loops before the iteration of the pair (epsilon, min_samples).
Searching(epsilon, min_samples, best) ==
    [kind |-> "searching", epsilon |-> epsilon, min_samples |-> min_samples, best |-> best]

\* The entry of _select_parameter, up to the loops.
SelectParameter ==
    Searching(EpsFirst, MinSamplesFirst,
              [best_ar |-> 0, best_ep |-> InitialEp, best_ms |-> MinSamplesFirst])

\* The body of the inner loop with a tie replacing the best: ar >= best_ar.
Fitted_Last(best, ar, epsilon, min_samples) ==
    IF ar >= best.best_ar
    THEN [best_ar |-> ar, best_ep |-> epsilon, best_ms |-> min_samples]
    ELSE best

\* The body of the inner loop: if ar > best_ar, the pair becomes the best.
Fitted(best, ar, epsilon, min_samples) ==
    IF ar > best.best_ar
    THEN [best_ar |-> ar, best_ep |-> epsilon, best_ms |-> min_samples]
    ELSE best

\* One iteration of the inner loop, and the step to the next pair: the next
\* min_samples, or the first min_samples of the next epsilon.
FitStep(scores, at) ==
    IF at.min_samples < MinSamplesLast
    THEN Searching(at.epsilon, at.min_samples + 1,
                   Fitted(at.best, scores[<<at.epsilon, at.min_samples>>],
                          at.epsilon, at.min_samples))
    ELSE Searching(at.epsilon + 1, MinSamplesFirst,
                   Fitted(at.best, scores[<<at.epsilon, at.min_samples>>],
                          at.epsilon, at.min_samples))

\* The largest number of pairs whose score is not 0.
MaxPeaks == 2

\* The pairs whose score may differ from 0, and the levels of such a score.
PeakCells == {EpsFirst + 1, EpsLast} \X {MinSamplesFirst, MinSamplesFirst + 1, MinSamplesLast}
PeakLevels == {-1, 1, 2}

ScoreTable(peaks) == [c \in Grid |-> IF c \in DOMAIN peaks THEN peaks[c] ELSE 0]

ScoreTables ==
    {ScoreTable(peaks) :
        peaks \in UNION {[P -> PeakLevels] :
                            P \in {Q \in SUBSET PeakCells : Cardinality(Q) <= MaxPeaks}}}

DbscanInit == CfgInit /\ MLInit /\ fn_in \in ScoreTables /\ fn_out = NotCalled

SelectParameterCall ==
    /\ fn_out = NotCalled
    /\ fn_out' = SelectParameter
    /\ UNCHANGED <<fn_in, nonfn>>

SelectParameterFit ==
    /\ fn_out.kind = "searching"
    /\ fn_out.epsilon <= EpsLast
    /\ fn_out' = FitStep(fn_in, fn_out)
    /\ UNCHANGED <<fn_in, nonfn>>

\* return best_ar, best_ep, best_ms
SelectParameterReturn ==
    /\ fn_out.kind = "searching"
    /\ fn_out.epsilon > EpsLast
    /\ fn_out' = Ok(fn_out.best)
    /\ UNCHANGED <<fn_in, nonfn>>

DbscanNext == SelectParameterCall \/ SelectParameterFit \/ SelectParameterReturn

SpecDbscan == DbscanInit /\ [][DbscanNext]_vars

(***************************************************************************)
(* ml/csv/__init__.py and ml/algorithm.py: the data sets.  A file is the   *)
(* sequence of its lines: the title, written 0, then the data rows,        *)
(* written 1, 2, ... in the order of the file.                             *)
(***************************************************************************)
Min(a, b) == IF a <= b THEN a ELSE b

\* numpy.genfromtxt(file_path, skip_header=, max_rows=): the lines after the
\* first skip_header ones, max_rows of them at most; max_rows below 1 raises.
GenFromTxt(lines, skip_header, max_rows) ==
    IF max_rows < 1 THEN Raise("builtins.ValueError")
    ELSE Ok(SubSeq(lines, skip_header + 1, Min(Len(lines), skip_header + max_rows)))

\* csv.read(file_name, skip_header=0, max_rows=10000): skip_header += 1
Read(lines, skip_header, max_rows) == GenFromTxt(lines, skip_header + 1, max_rows)

\* CSVDataSet.get(offset, limit)
CSVDataSetGet(lines, offset, limit) == Read(lines, offset, offset + limit)

\* The classes that db/models.py defines.
ModelClasses ==
    {"ModelIterator", "ModelBase", "TimestampMixin", "AnomalyDetectionBase", "Training"}

\* get_admin_context()
GetAdminContext == RequestContext("", "", TRUE)

\* The columns of a Performance instance that DBDataSet.get reads.
PerfRow(perf) == <<perf.iops, perf.latency, perf.ground_truth>>

\* performance_get_count(context): the argument models.Performance is
\* evaluated before get_count is entered, and names no attribute of models.
PerformanceGetCount(context) ==
    IF ~RequireContext(context) THEN Raise("NotAuthorized")
    ELSE IF "Performance" \notin ModelClasses THEN Raise("builtins.AttributeError")
    ELSE Ok(0)

\* performance_get_all(context, offset=, limit=): likewise.
PerformanceGetAll(context, offset, limit) ==
    IF ~RequireContext(context) THEN Raise("NotAuthorized")
    ELSE IF "Performance" \notin ModelClasses THEN Raise("builtins.AttributeError")
    ELSE Ok(<<>>)

\* The rest of DBDataSet.get once the count is read.
DBDataSetPage(count, offset, limit) ==
    IF ~IsOk(count) THEN count
    ELSE IF ~IsOk(PerformanceGetAll(GetAdminContext, offset, Min(count.val, limit)))
         THEN PerformanceGetAll(GetAdminContext, offset, Min(count.val, limit))
    ELSE Ok([i \in DOMAIN PerformanceGetAll(GetAdminContext, offset, Min(count.val, limit)).val |->
                PerfRow(PerformanceGetAll(GetAdminContext, offset, Min(count.val, limit)).val[i])])

\* DBDataSet.get(offset, limit)
DBDataSetGet(offset, limit) ==
    DBDataSetPage(PerformanceGetCount(GetAdminContext), offset, limit)

\* The largest number of data rows of a file, and the largest offset and limit.
MaxRows == 4
MaxOffset == 3
MaxLimit == 3

CsvFile(n) == [i \in 1..(n + 1) |-> i - 1]

\* training.dataset_source_type
SourceTypes == {"csv", "database"}

\* The calls of get on the data set of a driver: the source type it was
\* constructed under, the lines of the csv file, and the arguments.
DataSetCalls ==
    [source : SourceTypes, lines : {CsvFile(n) : n \in 0..MaxRows},
     offset : 0..MaxOffset, limit : 0..MaxLimit]

DataSetInit == CfgInit /\ MLInit /\ fn_in \in DataSetCalls /\ fn_out = NotCalled

\* self.dataset.get(offset, limit) of a driver whose data set is a CSVDataSet
CsvGet ==
    /\ fn_out = NotCalled
    /\ fn_in.source # "database"
    /\ fn_out' = CSVDataSetGet(fn_in.lines, fn_in.offset, fn_in.limit)
    /\ UNCHANGED <<fn_in, nonfn>>

\* self.dataset.get(offset, limit) of a driver whose data set is a DBDataSet
DbGet ==
    /\ fn_out = NotCalled
    /\ fn_in.source = "database"
    /\ fn_out' = DBDataSetGet(fn_in.offset, fn_in.limit)
    /\ UNCHANGED <<fn_in, nonfn>>

DataSetNext == CsvGet \/ DbGet

SpecDataSet == DataSetInit /\ [][DataSetNext]_vars

(***************************************************************************)
(* utils/config.py: List.__call__.  The loops are steps of the state       *)
(* machine: values is the list of the segments not yet taken, value the    *)
(* text being tried (Unset between two items), result the items built.     *)
(***************************************************************************)
ListType(item_type, bounds) == [t |-> "List", item_type |-> item_type, bounds |-> bounds]

\* s.rstrip(',')
RECURSIVE RStripCommas(_)
RStripCommas(s) ==
    IF s # <<>> /\ s[Len(s)] = "," THEN RStripCommas(SubSeq(s, 1, Len(s) - 1)) ELSE s

\* The number of characters of s before its first comma.
RECURSIVE UptoComma(_)
UptoComma(s) == IF s = <<>> \/ s[1] = "," THEN 0 ELSE 1 + UptoComma(Tail(s))

\* s.split(',')
RECURSIVE Split(_)
Split(s) ==
    IF UptoComma(s) = Len(s) THEN <<s>>
    ELSE <<SubSeq(s, 1, UptoComma(s))>> \o Split(SubSeq(s, UptoComma(s) + 2, Len(s)))

\* list(map(self.item_type, value)): the first item that raises ends the call.
RECURSIVE MapItems(_, _)
MapItems(typ, items) ==
    IF items = <<>> THEN Ok(<<>>)
    ELSE IF ~IsOk(TypeCall(typ.item_type, items[1])) THEN TypeCall(typ.item_type, items[1])
    ELSE IF ~IsOk(MapItems(typ, Tail(items))) THEN MapItems(typ, Tail(items))
    ELSE Ok(<<TypeCall(typ.item_type, items[1]).val>> \o MapItems(typ, Tail(items)).val)

Unset == [k |-> "unset"]

Coercing(values, value, result) ==
    [kind |-> "coercing", values |-> values, value |-> value, result |-> result]

\* From the stripped text s to the loop: the bounds, the split, the empty list.
ListValues(typ, s) ==
    IF typ.bounds /\ (s = <<>> \/ s[1] # "[") THEN Raise("ValueError")
    ELSE IF typ.bounds /\ s[Len(s)] # "]" THEN Raise("ValueError")
    ELSE IF typ.bounds /\ SubSeq(s, 2, Len(s) - 1) # <<>>
         THEN Coercing(Split(SubSeq(s, 2, Len(s) - 1)), Unset, <<>>)
    ELSE IF ~typ.bounds /\ s # <<>> THEN Coercing(Split(s), Unset, <<>>)
    ELSE Ok(PyList(<<>>))

\* The entry of List.__call__(value), up to the loop.
ListCall(typ, value) ==
    IF value.k \in {"list", "tuple"}
    THEN (IF IsOk(MapItems(typ, value.v)) THEN Ok(PyList(MapItems(typ, value.v).val))
          ELSE MapItems(typ, value.v))
    ELSE IF value.k # "str" THEN Raise("builtins.AttributeError")
    ELSE ListValues(typ, RStripCommas(Strip(value.v)))

\* value = values.pop(0)
Popped(at) == Coercing(Tail(at.values), PyStr(Head(at.values)), at.result)

\* A rejected text dropped, and the next segment tried alone.
Joined_Dropped(at) == Popped(at)

\* value += ',' + values.pop(0)
Joined(at) ==
    Coercing(Tail(at.values), PyStr(at.value.v \o <<",">> \o Head(at.values)), at.result)

\* One iteration of the inner loop, r being self.item_type(value.strip()).
Tried(at, r) ==
    IF IsOk(r) THEN Coercing(at.values, Unset, Append(at.result, r.val))
    ELSE IF ~Raises(r, "ValueError") \/ at.values = <<>> THEN r
    ELSE Joined(at)

\* The largest number of characters of a string to coerce.
MaxChars == 4

ListChars == {"1", ",", "'"}

\* Strings with blanks around the text and around a segment.
SpacedStrings ==
    { <<" ", "1", ",", " ", "1", " ">>, <<" ", "'", "1", ",", " ", "'", ",", " ">>,
      <<" ", ",", " ">>, <<" ">> }

ListStrings == UNION {[1..n -> ListChars] : n \in 0..MaxChars} \cup SpacedStrings

\* The list types: ListOpt(item_type=Integer()), ListOpt with the default
\* item type taking quotes, and both with bounds=True.
ListTypes ==
    {ListType(it, b) : it \in {IntegerType(None, None), StringType(TRUE, NoChoices)},
                       b \in BOOLEAN}

\* The calls: a string, the same string between brackets, and a list.
ListCalls ==
    [typ : ListTypes,
     value : {PyStr(s) : s \in ListStrings}
                \cup {PyStr(<<"[">> \o s \o <<"]">>) : s \in ListStrings}
                \cup {PyList(<<PyStr(<<"1">>), PyStr(<<"'">>)>>), PyInt(1)}]

ListInit == CfgInit /\ MLInit /\ fn_in \in ListCalls /\ fn_out = NotCalled

ListEnter ==
    /\ fn_out = NotCalled
    /\ fn_out' = ListCall(fn_in.typ, fn_in.value)
    /\ UNCHANGED <<fn_in, nonfn>>

ListPop ==
    /\ fn_out.kind = "coercing"
    /\ fn_out.value = Unset /\ fn_out.values # <<>>
    /\ fn_out' = Popped(fn_out)
    /\ UNCHANGED <<fn_in, nonfn>>

ListTry ==
    /\ fn_out.kind = "coercing"
    /\ fn_out.value # Unset
    /\ fn_out' = Tried(fn_out, TypeCall(fn_in.typ.item_type, PyStr(Strip(fn_out.value.v))))
    /\ UNCHANGED <<fn_in, nonfn>>

\* return result
ListReturn ==
    /\ fn_out.kind = "coercing"
    /\ fn_out.value = Unset /\ fn_out.values = <<>>
    /\ fn_out' = Ok(PyList(fn_out.result))
    /\ UNCHANGED <<fn_in, nonfn>>

ListNext == ListEnter \/ ListPop \/ ListTry \/ ListReturn

\* The call runs on: a step that can be taken is taken.
SpecList == ListInit /\ [][ListNext]_vars /\ WF_vars(ListNext)

(***************************************************************************)
(* The drivers (ml/algorithm.py, ml/algorithms/gaussian.py and dbscan.py). *)
(* A call of a driver is the list of its steps: a lookup of an option, a   *)
(* read of data, the read of training.model_data, and the computation.     *)
(* The steps are made in order up to the first one that raises.  The       *)
(* environment of a driver gives the options registered besides those of   *)
(* the API server and the values the registered options resolve to.        *)
(***************************************************************************)
\* The options cmd/api.py, common/options.py and ml/manager.py register.
ServerOpts ==
    { <<"apiserver", "listen_ip">>, <<"apiserver", "listen_port">>,
      <<"apiserver", "dbscan_figure_style">>,
      <<"training", "dataset_source_type">>, <<"training", "dataset_csv_file_name">>,
      <<"training", "dataset_number">> }

\* Options another module may register: the path of the Gaussian driver and
\* a top-level option with the name of the figure style.
ExtraOpts == { <<"apiserver", "train_dataset_path">>, <<"", "dbscan_figure_style">> }

FigureStyles == {"blue_red", "core_border_spectral"}

\* What a registered option resolves to in the environment env.
ValueOf(env, group, name) ==
    CASE <<group, name>> = <<"training", "dataset_source_type">> -> env.source_type
      [] <<group, name>> = <<"apiserver", "dbscan_figure_style">> -> env.style
      [] <<group, name>> = <<"", "dbscan_figure_style">> -> env.top_style
      [] OTHER -> name

\* CONF.<name> (group "") and CONF.<group>.<name>: a name that is neither a
\* top-level option nor a group raises NoSuchOptError from
\* ConfigOpts.__getattr__; a name that is no option of a registered group
\* raises the KeyError of _get_opt_info from GroupAttr.__getattr__.
ConfRead(env, group, name) ==
    IF group = ""
    THEN (IF <<"", name>> \in ServerOpts \cup env.extra THEN Ok(ValueOf(env, group, name))
          ELSE Raise("NoSuchOptError"))
    ELSE IF group \notin {o[1] : o \in ServerOpts \cup env.extra} THEN Raise("NoSuchOptError")
    ELSE IF <<group, name>> \in ServerOpts \cup env.extra THEN Ok(ValueOf(env, group, name))
    ELSE Raise("KeyError")

\* A step of a call: what it does, on what, and what it returned or raised.
ConfStep(env, group, name) ==
    [e |-> "conf", group |-> group, name |-> name, out |-> ConfRead(env, group, name)]

\* self.dataset.get(...): the data set the constructor selected.
DataSetStep(env) ==
    [e |-> "data", group |-> "dataset", name |-> env.source_type,
     out |-> IF env.source_type = "database" THEN PerformanceGetCount(GetAdminContext)
             ELSE Ok("window")]

\* ds.read(os.path.join(data_path, name)): a file under the data path.
FileStep(name) == [e |-> "data", group |-> "file", name |-> name, out |-> Ok("file")]

\* np_json.loads(training.model_data)
ModelDataStep(training) ==
    [e |-> "model_data", group |-> "", name |-> "",
     out |-> IF training.model_data = Absent THEN Raise("builtins.AttributeError")
             ELSE Ok(training.model_data)]

ComputeStep(result) == [e |-> "compute", group |-> "", name |-> "", out |-> Ok(result)]

\* AlgorithmBase.__init__
AlgorithmBaseInit(env) ==
    <<ConfStep(env, "training", "dataset_source_type")>>
        \o (IF env.source_type = "database" THEN <<>>
            ELSE <<ConfStep(env, "training", "dataset_csv_file_name")>>)

\* Gaussian.create_training(training)
GaussianCreateTraining(env) ==
    << ConfStep(env, "apiserver", "train_dataset_path"),
       FileStep("performance-cv.csv"), FileStep("performance-gt.csv"),
       FileStep("performance-tr.csv"), ComputeStep("model_data") >>

\* Gaussian.get_training_figure(training)
GaussianGetTrainingFigure(env, training) ==
    << ConfStep(env, "apiserver", "train_dataset_path"), FileStep("performance-tr.csv"),
       ModelDataStep(training), ComputeStep("figure") >>

\* The data read without the lookup of the size of the data set.
DbscanGetData_NoLookup(env) == <<DataSetStep(env)>>

\* DBSCAN._get_training_data and DBSCAN._get_test_data
DbscanGetData(env) == <<ConfStep(env, "training", "dataset_number"), DataSetStep(env)>>

\* DBSCAN.create_training(training)
DbscanCreateTraining(env) == DbscanGetData(env) \o <<ComputeStep("model_data")>>

\* The lookup of the style under the group apiserver.
StyleStep_Apiserver(env) == ConfStep(env, "apiserver", "dbscan_figure_style")

\* CONF.dbscan_figure_style
StyleStep(env) == ConfStep(env, "", "dbscan_figure_style")

\* DBSCAN.get_training_figure(training): the figure is drawn in the style
\* the lookup returned (every value but core_border_spectral draws blue_red).
DbscanGetTrainingFigure(env, training) ==
    DbscanGetData(env)
        \o << ModelDataStep(training), StyleStep(env),
              ComputeStep(IF StyleStep(env).out = Ok("core_border_spectral")
                          THEN "core_border_spectral" ELSE "blue_red") >>

\* The steps made: those before the first that raises, and that one.
RECURSIVE Made(_)
Made(steps) ==
    IF steps = <<>> THEN <<>>
    ELSE IF ~IsOk(steps[1].out) THEN <<steps[1]>>
    ELSE <<steps[1]>> \o Made(Tail(steps))

\* The outcome of the steps made: of the last one.
Outcome(made) == IF made = <<>> THEN Ok(None) ELSE made[Len(made)].out

\* A driver after its constructor (phase "init") or after a call: the steps
\* of the constructor, those of the call, and the outcome of the last.
Driver(phase, init, call) ==
    [kind |-> "driver", phase |-> phase, init |-> init, call |-> call,
     out |-> IF phase = "init" THEN Outcome(init) ELSE Outcome(call)]

DriverEnvs ==
    [source_type : SourceTypes, style : FigureStyles, top_style : {"core_border_spectral"},
     extra : SUBSET ExtraOpts]

\* The trainings a figure is asked for: with and without model_data.
DriverTrainings == {[model_data |-> Absent], [model_data |-> PyStr(<<"m", "1">>)]}

DriverCalls ==
    [algorithm : ALGORITHM_MAPPING, env : DriverEnvs, training : DriverTrainings]

DriverInit == CfgInit /\ MLInit /\ fn_in \in DriverCalls /\ fn_out = NotCalled

\* import_object(...): the constructor of the driver
Construct ==
    /\ fn_out = NotCalled
    /\ fn_out' = Driver("init", Made(AlgorithmBaseInit(fn_in.env)), <<>>)
    /\ UNCHANGED <<fn_in, nonfn>>

\* driver.create_training(training)
DriverCreateTraining ==
    /\ fn_out.kind = "driver" /\ fn_out.phase = "init" /\ IsOk(fn_out.out)
    /\ fn_out' = Driver("create_training", fn_out.init,
                        Made(IF fn_in.algorithm = <<"d", "b", "s", "c", "a", "n">>
                             THEN DbscanCreateTraining(fn_in.env)
                             ELSE GaussianCreateTraining(fn_in.env)))
    /\ UNCHANGED <<fn_in, nonfn>>

\* driver.get_training_figure(training)
DriverFigure ==
    /\ fn_out.kind = "driver" /\ fn_out.phase = "init" /\ IsOk(fn_out.out)
    /\ fn_out' = Driver("get_training_figure", fn_out.init,
                        Made(IF fn_in.algorithm = <<"d", "b", "s", "c", "a", "n">>
                             THEN DbscanGetTrainingFigure(fn_in.env, fn_in.training)
                             ELSE GaussianGetTrainingFigure(fn_in.env, fn_in.training)))
    /\ UNCHANGED <<fn_in, nonfn>>

DriverNext == Construct \/ DriverCreateTraining \/ DriverFigure

SpecDriver == DriverInit /\ [][DriverNext]_vars

(***************************************************************************)
(* The lazy handles of the storage layer (db/api.py, db/sqlalchemy/api.py) *)
(* under threads.  Each thread makes one call through IMPL:                *)
(* DBAPI.__getattr__ loads the backend under the lock of the DBAPI, then   *)
(* the backend asks _create_facade_lazily for the facade, which takes no   *)
(* lock.  A step of a thread is one read or write of the shared state.     *)
(***************************************************************************)
MaxThreads == 2
Threads == 1 .. MaxThreads

\* DBAPI.__init__ with lazy=True and the module state _FACADE = None:
\* lock = 0 is the free lock, facade = 0 is None, loads and created count
\* the backends assigned and the EngineFacade objects constructed.
DBAPIInit ==
    [kind |-> "db", pc |-> [t \in Threads |-> "__getattr__"],
     backend |-> "None", lock |-> 0, loads |-> 0,
     used |-> [t \in Threads |-> "None"],
     facade |-> 0, created |-> 0,
     mine |-> [t \in Threads |-> 0], got |-> [t \in Threads |-> <<0, "None">>]]

\* The lock admitting a thread whoever holds it.
LockFree_Always(lock) == TRUE

\* with self._lock: a thread enters when no thread holds the lock.
LockFree(lock) == lock = 0

Goto(t, pc) == [fn_out EXCEPT !.pc[t] = pc]

\* DBAPI.__getattr__: if not self._backend
GetAttrCheck(t) ==
    /\ fn_out.pc[t] = "__getattr__"
    /\ fn_out' = Goto(t, IF fn_out.backend = "None" THEN "_load_backend" ELSE "getattr")
    /\ UNCHANGED <<fn_in, nonfn>>

\* DBAPI._load_backend: with self._lock
LoadBackendAcquire(t) ==
    /\ fn_out.pc[t] = "_load_backend"
    /\ LockFree(fn_out.lock)
    /\ fn_out' = [Goto(t, "locked") EXCEPT !.lock = t]
    /\ UNCHANGED <<fn_in, nonfn>>

\* DBAPI._load_backend: if not self._backend, under the lock
LoadBackendCheck(t) ==
    /\ fn_out.pc[t] = "locked"
    /\ fn_out' = Goto(t, IF fn_out.backend = "None" THEN "import_module" ELSE "unlock")
    /\ UNCHANGED <<fn_in, nonfn>>

\* DBAPI._load_backend: import the module and assign its backend; an
\* import that raises leaves the with statement, which releases the lock.
LoadBackendImport(t) ==
    /\ fn_out.pc[t] = "import_module"
    /\ fn_out' = IF fn_in.importable
                 THEN [Goto(t, "unlock") EXCEPT !.backend = "module",
                                                !.loads = fn_out.loads + 1]
                 ELSE [Goto(t, "raised") EXCEPT !.lock = 0]
    /\ UNCHANGED <<fn_in, nonfn>>

\* DBAPI._load_backend: the end of the with statement
LoadBackendRelease(t) ==
    /\ fn_out.pc[t] = "unlock"
    /\ fn_out' = [Goto(t, "getattr") EXCEPT !.lock = 0]
    /\ UNCHANGED <<fn_in, nonfn>>

\* DBAPI.__getattr__: return getattr(self._backend, key)
GetAttrReturn(t) ==
    /\ fn_out.pc[t] = "getattr"
    /\ fn_out' = [Goto(t, "_create_facade_lazily") EXCEPT !.used[t] = fn_out.backend]
    /\ UNCHANGED <<fn_in, nonfn>>

\* _create_facade_lazily: if _FACADE is None
FacadeCheck(t) ==
    /\ fn_out.pc[t] = "_create_facade_lazily"
    /\ fn_out' = Goto(t, IF fn_out.facade = 0 THEN "EngineFacade" ELSE "return")
    /\ UNCHANGED <<fn_in, nonfn>>

\* _create_facade_lazily: EngineFacade(CONF.database.connection)
FacadeCreate(t) ==
    /\ fn_out.pc[t] = "EngineFacade"
    /\ fn_out' = [Goto(t, "assign") EXCEPT !.created = fn_out.created + 1,
                                           !.mine[t] = fn_out.created + 1]
    /\ UNCHANGED <<fn_in, nonfn>>

\* _create_facade_lazily: _FACADE = the facade constructed
FacadeAssign(t) ==
    /\ fn_out.pc[t] = "assign"
    /\ fn_out' = [Goto(t, "return") EXCEPT !.facade = fn_out.mine[t]]
    /\ UNCHANGED <<fn_in, nonfn>>

\* _create_facade_lazily: return _FACADE, then get_session or get_engine
\* of that facade.
FacadeReturn(t) ==
    /\ fn_out.pc[t] = "return"
    /\ fn_out' = [Goto(t, "done") EXCEPT
                     !.got[t] = <<fn_out.facade,
                                  IF fn_in.call[t] = "get_session" THEN "session"
                                  ELSE "engine">>]
    /\ UNCHANGED <<fn_in, nonfn>>

\* What the threads call, and whether the backend module can be imported.
DbCalls == [importable : BOOLEAN, call : [Threads -> {"get_session", "get_engine"}]]

DbInit == CfgInit /\ MLInit /\ fn_in \in DbCalls /\ fn_out = DBAPIInit

DbNext ==
    \E t \in Threads :
        \/ GetAttrCheck(t) \/ LoadBackendAcquire(t) \/ LoadBackendCheck(t)
        \/ LoadBackendImport(t) \/ LoadBackendRelease(t) \/ GetAttrReturn(t)
        \/ FacadeCheck(t) \/ FacadeCreate(t) \/ FacadeAssign(t) \/ FacadeReturn(t)

SpecDb == DbInit /\ [][DbNext]_vars

(***************************************************************************)
(* The retrying calls: Job.__call__ (data_generator/jobs.py),              *)
(* TelemetryClient.request (data_generator/client.py) and                  *)
(* KafkaDataReceiver.run (data_parser/manager.py).  Each is a loop         *)
(* `for index in range(1, retries + 1)` around one attempt; an iteration   *)
(* of the loop is a step.  The n-th attempt returns, raises the exception  *)
(* n, or is interrupted from the keyboard.                                 *)
(***************************************************************************)
MaxRetries == 3

Retriers == {"Job.__call__", "TelemetryClient.request", "KafkaDataReceiver.run"}

AttemptOutcomes == {"return", "raise", "KeyboardInterrupt"}

Running == [kind |-> "running"]

\* A call in its loop: the index of the next iteration, the attempts made
\* and the outcome of the call once it has ended.
Retrying(index, attempts, out) ==
    [kind |-> "retry", index |-> index, attempts |-> attempts, out |-> out]

\* except Exception as e: if index > retries: raise, else log and go on
Excepted(index, retries, attempts) ==
    IF index > retries THEN Retrying(index, attempts, Raise(index))
    ELSE Retrying(index + 1, attempts, Running)

\* The attempt returned: Job.__call__ and TelemetryClient.request break in
\* the else clause of their try; KafkaDataReceiver.run has no else clause.
Returned_(retrier, index, attempts) ==
    IF retrier = "KafkaDataReceiver.run" THEN Retrying(index + 1, attempts, Running)
    ELSE Retrying(index, attempts, Ok(None))

\* KeyboardInterrupt is no Exception: KafkaDataReceiver.run catches it and
\* breaks, the other two let it through.
Interrupted(retrier, index, attempts) ==
    IF retrier = "KafkaDataReceiver.run" THEN Retrying(index, attempts, Ok(None))
    ELSE Retrying(index, attempts, Raise("builtins.KeyboardInterrupt"))

\* One iteration of the loop.
Iteration(call, index, attempts) ==
    CASE call.outcomes[index] = "return" -> Returned_(call.retrier, index, attempts + 1)
      [] call.outcomes[index] = "raise" -> Excepted(index, call.retries, attempts + 1)
      [] OTHER -> Interrupted(call.retrier, index, attempts + 1)

RetryCalls ==
    [retrier : Retriers, retries : 0 .. MaxRetries,
     outcomes : [1 .. MaxRetries -> AttemptOutcomes]]

RetryInit == CfgInit /\ MLInit /\ fn_in \in RetryCalls /\ fn_out = NotCalled

\* retries = self._retries, and the start of the loop
RetryEnter ==
    /\ fn_out = NotCalled
    /\ fn_out' = Retrying(1, 0, Running)
    /\ UNCHANGED <<fn_in, nonfn>>

\* for index in range(1, retries + 1): one attempt
RetryAttempt ==
    /\ fn_out.kind = "retry" /\ fn_out.out = Running
    /\ fn_out.index <= fn_in.retries
    /\ fn_out' = Iteration(fn_in, fn_out.index, fn_out.attempts)
    /\ UNCHANGED <<fn_in, nonfn>>

\* The range is exhausted: the call returns None.
RetryExhausted ==
    /\ fn_out.kind = "retry" /\ fn_out.out = Running
    /\ fn_out.index > fn_in.retries
    /\ fn_out' = [fn_out EXCEPT !.out = Ok(None)]
    /\ UNCHANGED <<fn_in, nonfn>>

RetryNext == RetryEnter \/ RetryAttempt \/ RetryExhausted

SpecRetry == RetryInit /\ [][RetryNext]_vars

(***************************************************************************)
(* set_default and the lookup of a default, over every option type.        *)
(* set_default stores opt.type(default); _do_get returns                   *)
(* opt.type(opt.default) when the stored default is not None.              *)
(***************************************************************************)
FloatType(min, max) == [t |-> "Float", min |-> min, max |-> max]

\* A float of integral value n.
FloatOf(n) == [k |-> "float", v |-> n]

\* float(value) for the values of the model: a str is parsed as int(s) is
\* (the strings of the model have no '.', exponent, inf or nan), an int or
\* a bool gives its value, anything else is a TypeError.
FloatOfValue(value) ==
    CASE value.k = "str" ->
            (IF IsOk(IntOfStr(value.v)) THEN Ok(FloatOf(IntOfStr(value.v).val.v))
             ELSE IntOfStr(value.v))
      [] value.k \in {"int", "bool"} -> Ok(FloatOf(NumVal(value)))
      [] OTHER -> Raise("TypeError")

\* Number.__call__ with num_type float and no choices.
FloatCall(typ, value) ==
    IF value.k = "float" THEN Ok(value)
    ELSE IF value.k = "str" /\ Strip(value.v) = <<>> THEN Ok(None)
    ELSE FloatOfValue(value)

\* List.__call__ from its entry to its end: the loop of ListPop, ListTry and
\* ListReturn run to the return or the exception.
RECURSIVE ListRun(_, _)
ListRun(typ, at) ==
    IF at.kind # "coercing" THEN at
    ELSE IF at.value # Unset
         THEN ListRun(typ, Tried(at, TypeCall(typ.item_type, PyStr(Strip(at.value.v)))))
    ELSE IF at.values # <<>> THEN ListRun(typ, Popped(at))
    ELSE Ok(PyList(at.result))

\* ConfigOpts._convert_value(value, opt): opt.type(value)
ConvertValue(typ, value) ==
    CASE typ.t = "List" -> ListRun(typ, ListCall(typ, value))
      [] typ.t = "Float" -> FloatCall(typ, value)
      [] OTHER -> TypeCall(typ, value)

\* The end of _do_get without an override: convert(opt.default), or None.
DefaultOf(typ, default) ==
    IF default # None THEN ConvertValue(typ, default) ELSE Ok(None)

\* The largest number of characters of a default of a string option.
MaxQuoted == 4

QuoteChars == {"x", "'", "\""}

QuotedStrings == UNION {[1..n -> QuoteChars] : n \in 0..MaxQuoted}

NumberInputs ==
    {PyInt(1), PyBool(TRUE)}
        \cup {PyStr(s) : s \in {<<"1">>, <<" ", "1", " ">>, <<"-", "1">>, <<>>, <<" ">>, <<"x">>}}

BooleanInputs ==
    {PyBool(TRUE), PyBool(FALSE)}
        \cup {PyStr(s) : s \in {<<"T", "r", "u", "e">>, <<"0">>, <<"n", "o">>, <<"x">>}}

\* The defaults given to set_default, by the type of the option.
CoerceCalls ==
    [typ : {BooleanType}, v : BooleanInputs]
        \cup [typ : {IntegerType(None, None)}, v : NumberInputs]
        \cup [typ : {FloatType(None, None)}, v : NumberInputs \cup {FloatOf(1)}]
        \cup [typ : {StringType(q, NoChoices) : q \in BOOLEAN},
              v : {PyStr(s) : s \in QuotedStrings}]
        \cup [typ : ListTypes \cup {ListType(BooleanType, FALSE)},
              v : {PyStr(s) : s \in SpacedStrings \cup QuotedStrings}
                    \cup {PyList(<<PyStr(<<"1">>), PyStr(<<"\"", "'", "1", "'", "\"">>)>>)}]

CoerceInit == CfgInit /\ MLInit /\ fn_in \in CoerceCalls /\ fn_out = NotCalled

\* The option after set_default: its default, and what the call returned.
Defaulted(conv) ==
    [kind |-> "set_default", default |-> IF IsOk(conv) THEN conv.val ELSE None,
     out |-> IF IsOk(conv) THEN Ok(None) ELSE conv]

\* CONF.set_default(name, v) on an option of the type, registered without
\* a default.
CoerceSetDefault ==
    /\ fn_out = NotCalled
    /\ fn_out' = Defaulted(ConvertValue(fn_in.typ, fn_in.v))
    /\ UNCHANGED <<fn_in, nonfn>>

\* The lookup of the option, no file being loaded.
CoerceLookup ==
    /\ fn_out.kind = "set_default"
    /\ fn_out' = [kind |-> "lookup", default |-> fn_out.default,
                  out |-> DefaultOf(fn_in.typ, fn_out.default)]
    /\ UNCHANGED <<fn_in, nonfn>>

CoerceNext == CoerceSetDefault \/ CoerceLookup

SpecCoerce == CoerceInit /\ [][CoerceNext]_vars

(***************************************************************************)
(* Claims C1..C6: ConfigOpts                                               *)
(***************************************************************************)
\* The option (group, name) is registered.
Registered(name, group) == IsOk(GetOptInfo(name, group))

\* The loaded config file holds a value for (group, name).
HasOverride(name, group) == namespace # None /\ IsOk(GetFromNamespace(name, group))

\* A top-level name that is also the name of a registered group.
Shadowed(name, group) == group = None /\ name \in DOMAIN groups

\* What the precedence rule gives for the registered option (group, name):
\* the coerced override or its coercion error, else the coerced default,
\* else None.
Precedence(name, group) ==
    LET o == GetOptInfo(name, group).val
        typ == OptPool[o].type
    IN  IF HasOverride(name, group) THEN TypeCall(typ, GetFromNamespace(name, group).val)
        ELSE IF opt_default[o] # None THEN TypeCall(typ, opt_default[o])
        ELSE Ok(None)

\* The last call was a lookup that computed its outcome (the cache did not
\* serve it).
ComputedLookup == last.op = "lookup" /\ ~last.hit

\* C1 as stated: for every registered option, top-level or in a group, the
\* outcome computed by a lookup is the one the precedence rule gives.
C1_Original ==
    (ComputedLookup /\ Registered(last.name, last.group))
        => last.out = Precedence(last.name, last.group)

\* C1 amended: the same for every registered option but a top-level option
\* whose name is also the name of a registered group; the lookup of such a
\* name returns the view of the group.
C1_Precedence ==
    (ComputedLookup /\ Registered(last.name, last.group)
        /\ ~Shadowed(last.name, last.group))
        => last.out = Precedence(last.name, last.group)

\* C1 witness: a computed lookup of an option of group g that has a default
\* and an override returned the override, coerced (quotes stripped).
C1_Witness ==
    /\ ComputedLookup /\ last.group = PyStr(<<"g">>)
    /\ Registered(last.name, last.group) /\ HasOverride(last.name, last.group)
    /\ opt_default[GetOptInfo(last.name, last.group).val] # None
    /\ last.out = Ok(PyStr(<<"q">>))

\* C2 as stated: once a config file is loaded, a lookup of a registered
\* option the file overrides returns the coerced override (or raises its
\* coercion error), whether or not the option was looked up before.
C2_Claim ==
    (last.op = "lookup" /\ Registered(last.name, last.group)
        /\ ~Shadowed(last.name, last.group) /\ HasOverride(last.name, last.group))
        => last.out = TypeCall(OptPool[GetOptInfo(last.name, last.group).val].type,
                               GetFromNamespace(last.name, last.group).val)

\* C3 as stated: the lookup of (group, name) that follows a set_default of
\* (group, name) that returned, on an option without file override, is
\* computed from the new default and not served by the cache.
C3_Original ==
    (last.op = "lookup" /\ last.follows /\ ~HasOverride(last.name, last.group))
        => /\ ~last.hit
           /\ last.out = TypeCall(OptPool[GetOptInfo(last.name, last.group).val].type,
                                  opt_default[GetOptInfo(last.name, last.group).val])

\* C3 amended: the same, but for a top-level option whose name is also the
\* name of a registered group.
C3_NewDefault ==
    (last.op = "lookup" /\ last.follows /\ ~HasOverride(last.name, last.group)
        /\ ~Shadowed(last.name, last.group))
        => /\ ~last.hit
           /\ last.out = TypeCall(OptPool[GetOptInfo(last.name, last.group).val].type,
                                  opt_default[GetOptInfo(last.name, last.group).val])

\* C3 witness: set_default('a', '1') on the top-level IntOpt, whose default
\* was None, and then the lookup of a, which returned 1.
C3_Witness ==
    /\ last.op = "lookup" /\ last.follows /\ last.group = None
    /\ ~HasOverride(last.name, last.group) /\ ~Shadowed(last.name, last.group)
    /\ OptPool[GetOptInfo(last.name, last.group).val].default = None
    /\ last.out = Ok(PyInt(1))

\* C4 as stated: register_opt, register_opts, register_group and set_default
\* leave the cache empty.
C4_Claim ==
    (last.op \in {"register_opt", "register_opts", "register_group", "set_default"}
        /\ IsOk(last.out))
        => cache = EmptyDict

\* C5 as stated: a lookup or a set_default of a name that is not registered
\* at top level or in its (registered) group raises NoSuchOptError, and a
\* set_default in a group that is not registered raises NoSuchGroupError.
C5_Claim ==
    /\ (last.op \in {"lookup", "set_default"} /\ ~Shadowed(last.name, last.group)
          /\ (last.group = None \/ last.group.v \in DOMAIN groups)
          /\ ~Registered(last.name, last.group))
          => Raises(last.out, "NoSuchOptError")
    /\ (last.op = "set_default" /\ last.group # None /\ last.group.v \notin DOMAIN groups)
          => Raises(last.out, "NoSuchGroupError")

\* C6 as stated: a computed lookup of a registered option that is required
\* and has neither override nor default raises RequiredOptError.
C6_Claim ==
    (ComputedLookup /\ Registered(last.name, last.group)
        /\ ~Shadowed(last.name, last.group)
        /\ OptPool[GetOptInfo(last.name, last.group).val].required
        /\ ~HasOverride(last.name, last.group)
        /\ opt_default[GetOptInfo(last.name, last.group).val] = None)
        => Raises(last.out, "RequiredOptError")

(***************************************************************************)
(* Claims C7..C10: MLManager over the storage                              *)
(***************************************************************************)
\* The steps of the last call, as a set.
StepsMade == {ml_last.trace[i] : i \in DOMAIN ml_last.trace}

\* The algorithm names the manager knows, in lower case.
KnownNames ==
    {<<"g", "a", "u", "s", "s", "i", "a", "n">>, <<"d", "b", "s", "c", "a", "n">>}

\* The algorithm field is a string whose lower-case form is a known name.
KnownAlgorithm(algorithm) == algorithm.k = "str" /\ Lower(algorithm.v) \in KnownNames

\* C7: create_training with an algorithm field that is absent or whose
\* lower-case form is no known name raises, resolves no driver, makes no
\* training_create call and adds no row; a known name, in any letter case,
\* never raises the unknown-name error and resolves to the driver of its
\* lower-case form when the driver can be constructed.
C7_UnknownAlgorithm ==
    ml_last.op = "create_training" =>
        /\ ~KnownAlgorithm(ml_last.algorithm) =>
              /\ ~IsOk(ml_last.out) /\ ~IsOk(ml_last.driver)
              /\ ml_last.out = ml_last.driver
              /\ StepsMade = {"resolve"}
              /\ ml_last.stored = NotReached /\ ml_last.created = {}
        /\ KnownAlgorithm(ml_last.algorithm) =>
              /\ ~Raises(ml_last.driver, "KeyError")
              /\ ~Raises(ml_last.driver, "builtins.AttributeError")
              /\ IsOk(ml_last.driver) =>
                    ml_last.driver.val = PyStr(Lower(ml_last.algorithm.v))

\* C7 witness: create_training with the algorithm 'foo' raised KeyError at
\* the resolution, with no row stored yet or added.
C7_Witness ==
    /\ ml_last.op = "create_training"
    /\ ml_last.algorithm = PyStr(<<"f", "o", "o">>)
    /\ Raises(ml_last.out, "KeyError")
    /\ ml_last.trace = <<"resolve">> /\ ml_last.created = {}

\* C8 as stated: get_training_figure of a stored training with a format that
\* is no supported image format raises TypeError (unsupported image type),
\* and the figure routine of the driver has not been entered.
C8_Claim ==
    (ml_last.op = "get_training_figure" /\ ml_last.loaded # None
        /\ IsOk(ml_last.driver) /\ ml_last.fmt \notin ImageFormats)
        => /\ Raises(ml_last.out, "TypeError")
           /\ StepsMade \cap {"get_training_figure", "read_data", "estimate"} = {}

\* C9: on every create_training call the steps are a prefix of resolve,
\* train, training_create, each made at most once; training_create is
\* reached only after the training returned, with the values of the body and
\* model_data set to the output of the training, and the call returns or
\* raises what training_create did; when the resolution or the training
\* raises, the call raises the same, training_create is not called and no
\* row is added.
C9_Order ==
    ml_last.op = "create_training" =>
        /\ ml_last.trace \in {<<"resolve">>, <<"resolve", "train">>,
                              <<"resolve", "train", "training_create">>}
        /\ "train" \in StepsMade <=> IsOk(ml_last.driver)
        /\ "training_create" \in StepsMade <=> IsOk(ml_last.trained)
        /\ "training_create" \in StepsMade =>
              /\ ml_last.passed # None
              /\ ml_last.passed.model_data = ml_last.trained.val
              /\ ml_last.passed.algorithm = ml_last.algorithm
              /\ ml_last.stored # NotReached
              /\ ml_last.out = ml_last.stored
              /\ IsOk(ml_last.out) => ml_last.out.val.model_data = ml_last.trained.val
        /\ "training_create" \notin StepsMade =>
              /\ ~IsOk(ml_last.out)
              /\ ml_last.out = (IF IsOk(ml_last.driver) THEN ml_last.trained
                                ELSE ml_last.driver)
              /\ ml_last.stored = NotReached /\ ml_last.created = {}

\* C9 witness: a create_training call made the three steps and returned the
\* record of the storage, which carries the output of the training.
C9_Witness ==
    /\ ml_last.op = "create_training"
    /\ ml_last.trace = <<"resolve", "train", "training_create">>
    /\ IsOk(ml_last.out) /\ ml_last.out = ml_last.stored
    /\ ml_last.out.val.model_data = PyStr(<<"m", "2">>)
    /\ ml_last.created = {ml_last.out.val.id}

ReadBack == fn_out # NotCalled /\ fn_out.back # NotCalled

\* The value the document holds: itself, the value of its key or its item.
Held ==
    IF fn_in.k = "dict" THEN fn_in.v[<<"p">>]
    ELSE IF fn_in.k = "list" THEN fn_in.v[1] ELSE fn_in

\* C11: an array of dtype float64, int64 or bool, of any shape, written by
\* dumps and read back by loads, alone or as the value of a key, is an array
\* of the same dtype, the same shape and the same element bytes.
C11_ArrayRoundTrip ==
    (ReadBack /\ Held.k = "ndarray") => fn_out.back = Ok(fn_in)

\* C11 witness: a float64 array of shape (1, 2) holding 1.0 and a NaN was
\* written and read back as the same array.
C11_Witness ==
    /\ ReadBack
    /\ fn_in = NdArray(Float64, <<1, 2>>,
                       <<0, 0, 0, 0, 0, 0, 240, 63, 1, 0, 0, 0, 0, 0, 248, 127>>)
    /\ fn_out.back = Ok(fn_in)
    /\ K_ndarray \in DOMAIN fn_out.wire.val.v

\* The marker key of each kind of value.
MarkerOf(kind) ==
    CASE kind = "set" -> K_set [] kind = "tuple" -> K_tuple
      [] kind = "complex" -> K_complex [] kind = "bytes" -> K_bytes

\* C12 as stated: a set, a tuple, a complex number or a raw byte string is
\* written as a dict with the marker key of its kind, and read back as a
\* value of the same kind that is equal to it.
C12_Claim ==
    (ReadBack /\ fn_in.k \in {"set", "tuple", "complex", "bytes"})
        => /\ fn_out.wire.val.k = "dict" /\ MarkerOf(fn_in.k) \in DOMAIN fn_out.wire.val.v
           /\ fn_out.back = Ok(fn_in)

(***************************************************************************)
(* Claim C13: select_threshold_by_cv                                       *)
(***************************************************************************)
\* The F1 score of the k-th candidate threshold on the set of the call.
F1At(k) == F1Score(fn_in.gt, Predictions(fn_in.probs, Epsilon(fn_in.probs, k)))

Candidates == 0..(ScanSteps - 1)

\* C13: when some scanned candidate has a positive F1, the call returns an
\* F1 that no candidate exceeds, with the first (lowest) candidate that
\* reaches it.
C13_BestThreshold ==
    (IsOk(fn_out) /\ \E k \in Candidates : F1At(k)[1] > 0)
        => /\ \A k \in Candidates : ~Greater(F1At(k), fn_out.val.best_f1)
           /\ \E k \in Candidates :
                /\ fn_out.val.best_epsilon = Epsilon(fn_in.probs, k)
                /\ F1At(k) = fn_out.val.best_f1
                /\ \A j \in Candidates : j < k => Greater(fn_out.val.best_f1, F1At(j))

\* C13 witness: probabilities 0, 1, 3 with the first two points anomalous:
\* the best F1 is 1, first reached just above 1, and still held up to 3.
C13_Witness ==
    /\ IsOk(fn_out)
    /\ fn_in.probs = <<0, 1, 3>> /\ fn_in.gt = <<1, 1, 0>>
    /\ fn_out.val.best_f1 = <<4, 4>>
    /\ fn_out.val.best_epsilon = Epsilon(fn_in.probs, 334)
    /\ F1At(999) = <<4, 4>>

(***************************************************************************)
(* Claim C14: DBSCAN._select_parameter                                     *)
(***************************************************************************)
\* The pair c comes before the pair d: a smaller epsilon, or the same
\* epsilon and a smaller min_samples.
Before(c, d) == c[1] < d[1] \/ (c[1] = d[1] /\ c[2] < d[2])

\* C14: when some pair of the grid has a positive score, the call returns a
\* score that no pair exceeds, with the pair of the smallest epsilon, then
\* the smallest min_samples, among those that reach it.
C14_BestPair ==
    (IsOk(fn_out) /\ \E c \in Grid : fn_in[c] > 0)
        => /\ \A c \in Grid : fn_in[c] <= fn_out.val.best_ar
           /\ <<fn_out.val.best_ep, fn_out.val.best_ms>> \in Grid
           /\ fn_in[<<fn_out.val.best_ep, fn_out.val.best_ms>>] = fn_out.val.best_ar
           /\ \A c \in Grid :
                Before(c, <<fn_out.val.best_ep, fn_out.val.best_ms>>)
                    => fn_in[c] < fn_out.val.best_ar

\* C14 witness: the pairs (1.1, 6) and (3.9, 5) share the best score 2, and
\* the call returns (1.1, 6).
C14_Witness ==
    /\ IsOk(fn_out)
    /\ fn_in[<<11, 6>>] = 2 /\ fn_in[<<39, 5>>] = 2
    /\ fn_out.val = [best_ar |-> 2, best_ep |-> 11, best_ms |-> 6]

(***************************************************************************)
(* Claim C15: CSVDataSet.get                                               *)
(***************************************************************************)
\* The data rows numbered from to upto of the file, or fewer at its end.
DataRows(lines, from, upto) == SubSeq(Tail(lines), from, Min(Len(lines) - 1, upto))

\* C15: get(offset, limit) returns the data rows offset+1 .. offset+limit of
\* the file, or fewer when the file ends earlier.
C15_Claim ==
    (fn_out # NotCalled /\ fn_in.source = "csv")
        => fn_out = Ok(DataRows(fn_in.lines, fn_in.offset + 1, fn_in.offset + fn_in.limit))

MarkedDeleted(t, id) == id \in DOMAIN t /\ t[id].deleted

\* The call the step ends with is op, on the training id, by a context the
\* storage accepts.
Called(call, op, id) ==
    call.op = op /\ call.training_id = PyInt(id) /\ RequireContext(call.context)

\* C17: a training_delete that succeeds marks the row deleted; a row marked
\* deleted stays stored and marked, unchanged, through every later call, and
\* on it training_get and training_delete raise NotFound and the list of
\* training_get_all_by_tenant does not hold it.
C17_SoftDelete ==
    [][\A id \in TrainingIds :
         /\ (Called(ml_last', "training_delete", id) /\ IsOk(ml_last'.out))
                => (id \in DOMAIN rows /\ ~rows[id].deleted /\ MarkedDeleted(rows', id))
         /\ MarkedDeleted(rows, id) =>
              /\ MarkedDeleted(rows', id) /\ rows'[id] = rows[id]
              /\ Called(ml_last', "training_get", id) => Raises(ml_last'.out, "NotFound")
              /\ Called(ml_last', "training_delete", id) => Raises(ml_last'.out, "NotFound")
              /\ (ml_last'.op = "training_get_all_by_tenant" /\ IsOk(ml_last'.out))
                    => id \notin ml_last'.out.val]_vars

\* C17 witness: a second training_delete of a row marked deleted, by the
\* admin context, raises NotFound and the row is still stored.
C17_Witness ==
    /\ \E id \in TrainingIds : Called(ml_last, "training_delete", id) /\ MarkedDeleted(rows, id)
    /\ ml_last.context.is_admin
    /\ Raises(ml_last.out, "NotFound")

\* C18: a call of training_get, training_delete or training_get_all_by_tenant
\* by a non-admin user context returns no training of another tenant and
\* changes no row of another tenant.
C18_Claim ==
    [][(ml_last'.op \in {"training_get", "training_delete", "training_get_all_by_tenant"}
            /\ IsUserContext(ml_last'.context))
        => /\ \A id \in DOMAIN rows :
                rows[id].tenant_id # ml_last'.context.tenant_id
                    => (id \in DOMAIN rows' /\ rows'[id] = rows[id])
           /\ (ml_last'.op = "training_get" /\ IsOk(ml_last'.out))
                => ml_last'.out.val.tenant_id = ml_last'.context.tenant_id
           /\ (ml_last'.op = "training_get_all_by_tenant" /\ IsOk(ml_last'.out))
                => \A id \in ml_last'.out.val :
                        rows[id].tenant_id = ml_last'.context.tenant_id]_vars

(***************************************************************************)
(* Claim C19: group names                                                  *)
(***************************************************************************)
\* C19: two group names that differ only in letter case address the same
\* group: _get_group finds the same options under both, or neither.
C19_Claim ==
    \A g1 \in CaseNames, g2 \in CaseNames :
        Lower(g1) = Lower(g2) => GetGroup(g1) = GetGroup(g2)

(***************************************************************************)
(* Claim C20: List.__call__ on a string                                    *)
(***************************************************************************)
\* The segments of the string of the call: the loop was entered with them.
Segments == ListValues(fn_in.typ, RStripCommas(Strip(fn_in.value.v))).values

RECURSIVE Join(_)
Join(segs) == IF Len(segs) = 1 THEN segs[1] ELSE segs[1] \o <<",">> \o Join(Tail(segs))

\* What the item type makes of the segments i..j joined by commas.
ItemOf(i, j) == TypeCall(fn_in.typ.item_type, PyStr(Strip(Join(SubSeq(Segments, i, j)))))

\* The segment at which the item of the segment e ends begins: after the
\* largest end below e, or at 1.
StartOf(ends, e) ==
    IF \E d \in ends : d < e
    THEN 1 + CHOOSE d \in ends : d < e /\ \A c \in ends : c < e => c <= d
    ELSE 1

\* ends cuts the segments into items as the claim says: every segment is in
\* one item, an item is accepted, and no shorter text from its start is.
Cuts(ends) ==
    /\ Len(Segments) \in ends
    /\ \A e \in ends :
          /\ IsOk(ItemOf(StartOf(ends, e), e))
          /\ \A j \in StartOf(ends, e)..(e - 1) : ~IsOk(ItemOf(StartOf(ends, e), j))

\* The items of the cut ends, in the order of the input.
RECURSIVE ItemsOf(_, _)
ItemsOf(ends, from) ==
    IF from > Len(Segments) THEN <<>>
    ELSE LET e == CHOOSE d \in ends : d >= from /\ \A c \in ends : c >= from => d <= c
         IN  <<ItemOf(from, e).val>> \o ItemsOf(ends, e + 1)

Entered ==
    /\ fn_in.value.k = "str"
    /\ ListValues(fn_in.typ, RStripCommas(Strip(fn_in.value.v))).kind = "coercing"

Finished == fn_out.kind \in {"ok", "raise"}

\* C20: a call on a string ends; it returns the items of the cut of its
\* segments that joins a rejected text with the next segment, every segment
\* in one item and in order, and raises when the last text is rejected.
C20_ListCoercion ==
    /\ [](( Entered /\ Finished) =>
            IF \E ends \in SUBSET (1..Len(Segments)) : Cuts(ends)
            THEN \E ends \in SUBSET (1..Len(Segments)) :
                    Cuts(ends) /\ fn_out = Ok(PyList(ItemsOf(ends, 1)))
            ELSE Raises(fn_out, "ValueError"))
    /\ <>Finished

\* C20 witness: "'1,'" with quoted items: the segment "'1" is rejected,
\* joined with the segment "'" and accepted; the call returns the one item.
C20_Witness ==
    /\ fn_in.typ = ListType(StringType(TRUE, NoChoices), FALSE)
    /\ fn_in.value = PyStr(<<"'", "1", ",", "'">>)
    /\ Segments = << <<"'", "1">>, <<"'">> >>
    /\ fn_out = Ok(PyList(<<PyStr(<<"1", ",">>)>>))

(***************************************************************************)
(* Claim C21: ConfigOpts.__call__                                          *)
(***************************************************************************)
\* The arguments that give the path f1, in two arguments and in one.
PathArgs ==
    { ArgList(<< <<"--config-file">>, <<"f1">> >>),
      ArgList(<< <<"--config-file", "=", "f1">> >>) }

\* C21: load(args) with the path of a readable file, in either form,
\* returns and leaves that file as the source of the overrides.
C21_Claim ==
    (last.op = "load" /\ last.arg \in PathArgs)
        => /\ IsOk(last.out)
           /\ namespace = Parser(ConfigFiles[<<"f1">>])

(***************************************************************************)
(* Claims C22..C24: the drivers, their data and their configuration        *)
(***************************************************************************)
Gaussian == <<"g", "a", "u", "s", "s", "i", "a", "n">>
Dbscan == <<"d", "b", "s", "c", "a", "n">>

\* A call of the driver of the algorithm has been made.
DriverCalled(algorithm) ==
    fn_out.kind = "driver" /\ fn_out.phase # "init" /\ fn_in.algorithm = algorithm

StepsOf(steps, e) == {i \in DOMAIN steps : steps[i].e = e}

\* C22: a call of the Gaussian driver reads the data set its constructor
\* selected, and reads no other source of data.
C22_Claim ==
    DriverCalled(Gaussian)
        => /\ \E i \in StepsOf(fn_out.call, "data") : fn_out.call[i].group = "dataset"
           /\ \A i \in StepsOf(fn_out.call, "data") : fn_out.call[i].group = "dataset"

\* The figure of the DBSCAN driver got as far as the choice of its style.
StyleChosen ==
    /\ DriverCalled(Dbscan) /\ fn_out.phase = "get_training_figure"
    /\ \E i \in DOMAIN fn_out.call :
          fn_out.call[i].e = "model_data" /\ IsOk(fn_out.call[i].out)

\* C23: with dbscan_figure_style registered under apiserver, the figure of
\* the DBSCAN driver resolves its style without an error of the
\* configuration and is drawn in the style of apiserver.dbscan_figure_style.
C23_Claim ==
    StyleChosen => /\ IsOk(fn_out.out)
                   /\ fn_out.out.val = fn_in.env.style

ConstructorOpts ==
    { <<"training", "dataset_source_type">>, <<"training", "dataset_csv_file_name">> }

OptOf(step) == <<step.group, step.name>>

\* C24 as stated: a call of a driver makes no lookup of its own.
C24_Claim ==
    (fn_out.kind = "driver" /\ fn_out.phase # "init") => StepsOf(fn_out.call, "conf") = {}

\* C24, amended: the constructor looks up the source type and the name of
\* the CSV file only; every call starts with a lookup of its own (the size
\* of the data set for DBSCAN, the path of the data for Gaussian), and the
\* figure of DBSCAN looks up its style after it has read model_data.
C24_Amended ==
    fn_out.kind = "driver" =>
        /\ \A i \in DOMAIN fn_out.init :
              fn_out.init[i].e = "conf" /\ OptOf(fn_out.init[i]) \in ConstructorOpts
        /\ fn_out.phase # "init" =>
              /\ fn_out.call[1].e = "conf"
              /\ OptOf(fn_out.call[1]) =
                    (IF fn_in.algorithm = Dbscan THEN <<"training", "dataset_number">>
                     ELSE <<"apiserver", "train_dataset_path">>)
              /\ \A i \in StepsOf(fn_out.call, "conf") :
                    OptOf(fn_out.call[i]) \notin ConstructorOpts
        /\ StyleChosen =>
              \E i \in StepsOf(fn_out.call, "conf") :
                  OptOf(fn_out.call[i]) = <<"", "dbscan_figure_style">>

C24_Witness ==
    /\ StyleChosen
    /\ Len(fn_out.init) = 2
    /\ fn_out.call[1].out = Ok("dataset_number")

(***************************************************************************)
(* Claims C25, C26: the lazy handles under threads                         *)
(***************************************************************************)
\* The threads that have the backend from __getattr__.
Served == {t \in Threads : fn_out.pc[t] \notin
              {"__getattr__", "_load_backend", "locked", "import_module", "unlock",
               "getattr", "raised"}}

\* C25: under every interleaving the backend is loaded and assigned at
\* most once, every caller uses that backend, and the handle does not
\* change once it is assigned.
C25_LoadedOnce ==
    /\ [](/\ fn_out.loads <= 1
          /\ \A t \in Served : fn_out.used[t] = "module" /\ fn_out.backend = "module")
    /\ [][fn_out.backend # "None" => fn_out'.backend = fn_out.backend]_vars

\* Two threads found no backend and went for the lock; both are served.
C25_Witness ==
    /\ Served = Threads
    /\ fn_out.loads = 1

\* The threads that have their facade.
Returned == {t \in Threads : fn_out.pc[t] = "done"}

\* C26: under every interleaving one EngineFacade is created at most, and
\* every caller has its session or engine from it.
C26_Claim ==
    /\ fn_out.created <= 1
    /\ \A t \in Returned : fn_out.got[t][1] = 1

(***************************************************************************)
(* Claim C30: the retrying calls                                           *)
(***************************************************************************)
\* The attempts of the call that returned, among those it may make.
Successes == {i \in 1 .. fn_in.retries : fn_in.outcomes[i] = "return"}

AllFail == fn_in.retries >= 1 /\ \A i \in 1 .. fn_in.retries : fn_in.outcomes[i] = "raise"

\* No attempt before the first that returned was interrupted.
Uninterrupted ==
    \A i \in 1 .. fn_in.retries :
        fn_in.outcomes[i] = "KeyboardInterrupt" => \E j \in Successes : j < i

\* C30: a retrying call that has ended made no more attempts than
\* configured, stopped at its first attempt that returned, and raised the
\* last error when every attempt raised.
C30_Claim ==
    (fn_out.kind = "retry" /\ fn_out.out # Running) =>
        /\ fn_out.attempts <= fn_in.retries
        /\ (Successes # {} /\ Uninterrupted) =>
              (\A i \in Successes : fn_out.attempts <= i) /\ fn_out.out = Ok(None)
        /\ AllFail => fn_out.out = Raise(fn_in.retries)

(***************************************************************************)
(* Claims C27, C28: what the searches return when nothing scores          *)
(***************************************************************************)
\* C27: the threshold select_threshold_by_cv returns is one of the scanned
\* candidates, and the F1 it returns is the F1 of that threshold, also when
\* no candidate has a positive F1.
C27_Claim ==
    IsOk(fn_out)
        => \E k \in Candidates :
              /\ fn_out.val.best_epsilon = Epsilon(fn_in.probs, k)
              /\ fn_out.val.best_f1 = F1At(k)

\* C28: the pair _select_parameter returns belongs to the grid, and the
\* score it returns is the score of that pair, also when no pair has a
\* positive score.
C28_Claim ==
    IsOk(fn_out)
        => /\ <<fn_out.val.best_ep, fn_out.val.best_ms>> \in Grid
           /\ fn_out.val.best_ar = fn_in[<<fn_out.val.best_ep, fn_out.val.best_ms>>]

(***************************************************************************)
(* Claim C29: the default coerced twice                                    *)
(***************************************************************************)
\* C29: after set_default(name, v) with a value the type accepts, the
\* lookup of the option returns type(v).
C29_Claim ==
    (fn_out.kind = "lookup" /\ IsOk(ConvertValue(fn_in.typ, fn_in.v)))
        => fn_out.out = ConvertValue(fn_in.typ, fn_in.v)

====
